---- MODULE Spec2Model ----
(***************************************************************************)
(* Model of telegram_bot.py: the media-group aggregator (handle_message,   *)
(* process_media_group, process_split_groups and their timer tasks) and    *)
(* the process supervisor (execute_script and its helpers).                *)
(*                                                                         *)
(* Time in the aggregator is counted in whole seconds: every asyncio.sleep *)
(* of a timer task is a countdown that Tick decrements; a task whose       *)
(* countdown is 0 is due and runs before the clock advances and before the *)
(* next update is handled.  Task.cancel() on a sleeping task marks it      *)
(* cancelled and due; it wakes with CancelledError and does nothing.       *)
(***************************************************************************)
EXTENDS Integers, Sequences, FiniteSets, TLC

\* ------------------------------------------------------------------ bounds
MaxEvents == 3

\* ------------------------------------------------------- program constants
MEDIA_GROUP_TIMEOUT == 2
SPLIT_GROUP_TIMEOUT == 3

\* Two media_group_ids and two chats.  Chats are interchangeable, so group 1 is
\* placed in chat 1 and group 2 in either chat.
GroupIds == {1, 2}
Chats == {1, 2}
ChatsOf(g) == IF g = 1 THEN {1} ELSE Chats

\* Captions are sequences of characters; " " is whitespace.
Captions == { <<>>, <<" ">>, <<"a">>, <<" ", "a">>, <<"b">> }

\* Telegram puts the caption of an album on its first message; a later message
\* of the same album carries none or, rarely, one of its own.
LaterCaptions == { <<>>, <<"b">> }

VARIABLES
  \* aggregator (program state)
  pending_media_groups,   \* media_group_id -> [messages, processed]
  group_tasks,            \* timer tasks process_group_after_timeout
  pending_split_groups,   \* split_key -> [groups, processed]
  split_tasks,            \* timer tasks process_split_after_timeout
  inflight,               \* process_media_group calls past the split check
  nextEvent,              \* number of the next arriving update
  \* aggregator (history, read only by the properties)
  arrivals,               \* per group id: every event that arrived, in order
  late,                   \* per group id: some event arrived after a full quiet window
  sinceLast,              \* per group id: seconds since its last arrival (capped)
  sealedUnits,            \* per group id: message lists its timers handed to process_media_group
  splitLog,               \* per open split key: message lists of the batches that took the split path
  submitted               \* units that went on to download and job, in order

aggVars == << pending_media_groups, group_tasks, pending_split_groups, split_tasks,
              inflight, nextEvent, arrivals, late, sinceLast, sealedUnits,
              splitLog, submitted >>

VARIABLES
  \* supervisor (program state of one execute_script call)
  pc,                     \* where execute_script stands
  timeout_cfg,            \* a timeout was passed to execute_script
  psutil_available,       \* PSUTIL_AVAILABLE
  timeout_task,           \* "none", "sleeping", "done", "cancelled"
  read_task,              \* "none", "running", "cancelled"
  rd_eof,                 \* per stream: its read loop has seen EOF
  chunks,                 \* per stream: chunks_stdout / chunks_stderr, in blocks
  bytes,                  \* per stream: stdout_bytes / stderr_bytes, in blocks
  timed_out,              \* timed_out
  interrupt_reason,       \* "none", "timeout", "interrupt"
  kill_cont,              \* caller of kill_process_tree: "timeout" or "except"
  kill_children,          \* the children kill_process_tree enumerated at its start
  post_stream,            \* stream the post-kill read loop is at
  post_attempt,           \* its attempt number
  running_processes,      \* the registry (set of pids)
  result,                 \* the dictionary execute_script returned
  \* supervisor (operating system)
  parent,                 \* the spawned process: "none", "running", "exited"
  exit_status,            \* its exit status once exited
  reaped,                 \* asyncio has collected it: process.returncode is set
  child,                  \* a descendant: "none", "running", "exited"
  child_pipes,            \* the descendant inherited the pipes' write ends
  buf,                    \* per stream: blocks written and not yet read
  \* supervisor (history, read only by the properties)
  written,                \* per stream: every block written, in order
  signals,                \* signals sent, in order
  fault,                  \* kind of failure injected into the call, or "none"
  hist                    \* set of tags of what happened

supVars == << pc, timeout_cfg, psutil_available, timeout_task, read_task, rd_eof,
              chunks, bytes, timed_out, interrupt_reason, kill_cont, kill_children,
              post_stream, post_attempt, running_processes, result, parent,
              exit_status, reaped, child, child_pipes, buf, written, signals,
              fault, hist >>

VARIABLES
  reply,                  \* one job's replies to the user (process_media_group / handle_message)
  pure                    \* input and output of one call of a pure function

auxVars == << reply, pure >>

nonAggVars == << supVars, auxVars >>

nonSupVars == << aggVars, auxVars >>

nonAuxVars == << aggVars, supVars >>


\* ------------------------------------------------------------ pure helpers
Min(a, b) == IF a < b THEN a ELSE b

RemoveKey(f, k) == [x \in DOMAIN f \ {k} |-> f[x]]

PutKey(f, k, v) == [x \in DOMAIN f \cup {k} |-> IF x = k THEN v ELSE f[x]]

IsSpace(c) == c = " "

RECURSIVE LStrip(_)
LStrip(s) == IF s # <<>> /\ IsSpace(Head(s)) THEN LStrip(Tail(s)) ELSE s

RECURSIVE RStrip(_)
RStrip(s) == IF s # <<>> /\ IsSpace(s[Len(s)]) THEN RStrip(SubSeq(s, 1, Len(s) - 1)) ELSE s

\* str.strip()
Strip(s) == RStrip(LStrip(s))

\* hash(caption_normalized): equal strings hash equally; distinct captions of
\* the model are taken to hash differently.
CaptionHash(s) == s

NoKey == << 0, <<>> >>

\* (mutant) only the empty caption gives no key
get_split_group_key_NoStrip(chat, caption) ==
  IF caption = <<>> THEN NoKey ELSE << chat, CaptionHash(Strip(caption)) >>

\* get_split_group_key(message, caption): None (NoKey) for an empty or
\* whitespace-only caption, else (chat_id, hash(caption.strip())).
get_split_group_key(chat, caption) ==
  IF caption = <<>> \/ Strip(caption) = <<>>
  THEN NoKey
  ELSE << chat, CaptionHash(Strip(caption)) >>

RECURSIVE Flatten(_)
Flatten(lists) == IF lists = <<>> THEN <<>> ELSE Head(lists) \o Flatten(Tail(lists))

\* (mutant) the first caption found on any message of the batch
TextOf_AnyCaption(messages) ==
  LET idx == { i \in DOMAIN messages : messages[i].caption # <<>> } IN
  IF idx = {} THEN <<>>
  ELSE messages[CHOOSE i \in idx : \A j \in idx : i <= j].caption

\* first_message.caption or first_message.text or ""
TextOf(messages) == messages[1].caption

\* (mutant) the previous timer task is left running when a new one is created
CancelTasks_NotCancelled(tasks, k) == tasks

\* task.cancel() on the timer task stored in the entry (the tasks of key k
\* that are still sleeping): the sleep is abandoned and the task is scheduled
\* to wake with CancelledError.
CancelTasks(tasks, k) ==
  { IF t.key = k THEN [t EXCEPT !.cancelled = TRUE, !.remaining = 0] ELSE t : t \in tasks }

\* (mutant) the joining group is put in front of the groups already collected
AppendGroup_InFront(groups, gid, messages) ==
  << [media_group_id |-> gid, messages |-> messages] >> \o groups

\* split_data['groups'].append({'media_group_id': ..., 'messages': messages})
AppendGroup(groups, gid, messages) ==
  Append(groups, [media_group_id |-> gid, messages |-> messages])

\* all_messages = []; for group in groups: all_messages.extend(group['messages'])
RECURSIVE CombineMessages(_)
CombineMessages(groups) ==
  IF groups = <<>> THEN <<>> ELSE Head(groups).messages \o CombineMessages(Tail(groups))

NoDueTask ==
  /\ \A t \in group_tasks : t.remaining > 0
  /\ \A t \in split_tasks : t.remaining > 0

\* ------------------------------------------------------------------- init
Streams == {"stdout", "stderr"}

\* the pid of the process execute_script spawns
Pid == "pid"

NoResult == [returncode |-> 0, success |-> FALSE, timeout |-> FALSE, stdout |-> <<>>,
             stderr |-> <<>>, reason |-> "unset", clean |-> FALSE]

\* no job is being answered
NoReply == [pc |-> "idle", status_msg |-> FALSE, attempts |-> 0, waits |-> <<>>,
            ended |-> "no_call", outcome |-> "none", shown |-> <<>>,
            media |-> "unset", entry |-> "none"]

\* no pure function has been called
NoCall == [fn |-> "none"]

\* No update has arrived, execute_script has not been called, the registry is empty.
Init ==
  /\ pending_media_groups = << >>
  /\ group_tasks = {}
  /\ pending_split_groups = << >>
  /\ split_tasks = {}
  /\ inflight = {}
  /\ nextEvent = 1
  /\ arrivals = [g \in GroupIds |-> <<>>]
  /\ late = [g \in GroupIds |-> FALSE]
  /\ sinceLast = [g \in GroupIds |-> 0]
  /\ sealedUnits = [g \in GroupIds |-> <<>>]
  /\ splitLog = << >>
  /\ submitted = <<>>
  /\ pc = "idle"
  /\ timeout_cfg = FALSE
  /\ psutil_available = FALSE
  /\ timeout_task = "none"
  /\ read_task = "none"
  /\ rd_eof = [s \in Streams |-> FALSE]
  /\ chunks = [s \in Streams |-> <<>>]
  /\ bytes = [s \in Streams |-> <<>>]
  /\ timed_out = FALSE
  /\ interrupt_reason = "none"
  /\ kill_cont = "none"
  /\ kill_children = {}
  /\ post_stream = "stdout"
  /\ post_attempt = 0
  /\ running_processes = {}
  /\ result = NoResult
  /\ parent = "none"
  /\ exit_status = 0
  /\ reaped = FALSE
  /\ child = "none"
  /\ child_pipes = FALSE
  /\ buf = [s \in Streams |-> <<>>]
  /\ written = [s \in Streams |-> <<>>]
  /\ signals = <<>>
  /\ fault = "none"
  /\ hist = {}
  /\ reply = NoReply
  /\ pure = NoCall

\* (mutant) the processed marker of the entry is not consulted
HandleGroupMessage_IgnoresProcessed(g, chat, caption) ==
  LET e == [id |-> nextEvent, gid |-> g, chat |-> chat, caption |-> caption] IN
  /\ nextEvent <= MaxEvents
  /\ NoDueTask
  \* a media group lives in one chat
  /\ arrivals[g] # <<>> => chat = arrivals[g][1].chat
  /\ (g \in DOMAIN pending_media_groups /\ ~pending_media_groups[g].processed)
       => caption \in LaterCaptions
  /\ nextEvent' = nextEvent + 1
  /\ arrivals' = [arrivals EXCEPT ![g] = Append(@, e)]
  /\ late' = [late EXCEPT ![g] = @ \/ (arrivals[g] # <<>> /\ sinceLast[g] >= MEDIA_GROUP_TIMEOUT)]
  /\ sinceLast' = [sinceLast EXCEPT ![g] = 0]
  /\ IF g \in DOMAIN pending_media_groups
     THEN IF FALSE
          THEN UNCHANGED << pending_media_groups, group_tasks >>
          ELSE /\ pending_media_groups' =
                    [pending_media_groups EXCEPT ![g].messages = Append(@, e)]
               /\ group_tasks' = CancelTasks(group_tasks, g) \cup
                    {[key |-> g, remaining |-> MEDIA_GROUP_TIMEOUT, cancelled |-> FALSE]}
     ELSE /\ pending_media_groups' =
               PutKey(pending_media_groups, g, [messages |-> <<e>>, processed |-> FALSE])
          /\ group_tasks' = group_tasks \cup
               {[key |-> g, remaining |-> MEDIA_GROUP_TIMEOUT, cancelled |-> FALSE]}
  /\ UNCHANGED << pending_split_groups, split_tasks, inflight, sealedUnits, splitLog, submitted >>
  /\ UNCHANGED nonAggVars

\* ---------------------------------------------------------------- actions
\* handle_message for an update that carries a media_group_id.
HandleGroupMessage(g, chat, caption) ==
  LET e == [id |-> nextEvent, gid |-> g, chat |-> chat, caption |-> caption] IN
  /\ nextEvent <= MaxEvents
  /\ NoDueTask
  \* a media group lives in one chat
  /\ arrivals[g] # <<>> => chat = arrivals[g][1].chat
  /\ (g \in DOMAIN pending_media_groups /\ ~pending_media_groups[g].processed)
       => caption \in LaterCaptions
  /\ nextEvent' = nextEvent + 1
  /\ arrivals' = [arrivals EXCEPT ![g] = Append(@, e)]
  /\ late' = [late EXCEPT ![g] = @ \/ (arrivals[g] # <<>> /\ sinceLast[g] >= MEDIA_GROUP_TIMEOUT)]
  /\ sinceLast' = [sinceLast EXCEPT ![g] = 0]
  /\ IF g \in DOMAIN pending_media_groups
     THEN IF pending_media_groups[g].processed
          THEN UNCHANGED << pending_media_groups, group_tasks >>
          ELSE /\ pending_media_groups' =
                    [pending_media_groups EXCEPT ![g].messages = Append(@, e)]
               /\ group_tasks' = CancelTasks(group_tasks, g) \cup
                    {[key |-> g, remaining |-> MEDIA_GROUP_TIMEOUT, cancelled |-> FALSE]}
     ELSE /\ pending_media_groups' =
               PutKey(pending_media_groups, g, [messages |-> <<e>>, processed |-> FALSE])
          /\ group_tasks' = group_tasks \cup
               {[key |-> g, remaining |-> MEDIA_GROUP_TIMEOUT, cancelled |-> FALSE]}
  /\ UNCHANGED << pending_split_groups, split_tasks, inflight, sealedUnits, splitLog, submitted >>
  /\ UNCHANGED nonAggVars

\* One second passes.
Tick ==
  /\ NoDueTask
  /\ group_tasks # {} \/ split_tasks # {}
  /\ group_tasks' = { [t EXCEPT !.remaining = @ - 1] : t \in group_tasks }
  /\ split_tasks' = { [t EXCEPT !.remaining = @ - 1] : t \in split_tasks }
  /\ sinceLast' = [g \in GroupIds |->
                     IF arrivals[g] = <<>> THEN 0 ELSE Min(sinceLast[g] + 1, MEDIA_GROUP_TIMEOUT)]
  /\ UNCHANGED << pending_media_groups, pending_split_groups, inflight, nextEvent,
                  arrivals, late, sealedUnits, splitLog, submitted >>
  /\ UNCHANGED nonAggVars

\* (mutant) a batch joins the split group of its key even when that group is
\* already being processed
GroupTimerFires_JoinsProcessed(t) ==
  /\ t \in group_tasks
  /\ t.remaining = 0
  /\ LET g == t.key IN
     IF t.cancelled \/ g \notin DOMAIN pending_media_groups
        \/ pending_media_groups[g].processed
     THEN /\ group_tasks' = group_tasks \ {t}
          /\ UNCHANGED << pending_media_groups, pending_split_groups, split_tasks,
                          inflight, sealedUnits, splitLog, submitted >>
     ELSE
       LET messages == pending_media_groups[g].messages
           text == TextOf(messages)
           split_key == get_split_group_key(messages[1].chat, text)
           u == [kind |-> "group", gid |-> g, key |-> NoKey,
                 messages |-> messages, members |-> <<>>]
       IN
       /\ group_tasks' = group_tasks \ {t}
       /\ sealedUnits' = [sealedUnits EXCEPT ![g] = Append(@, messages)]
       /\ IF split_key # NoKey /\ split_key \in DOMAIN pending_split_groups
          THEN \* join the open split group, reset its timer, return, clean up
               /\ pending_split_groups' =
                    [pending_split_groups EXCEPT ![split_key].groups = AppendGroup(@, g, messages)]
               /\ split_tasks' = CancelTasks(split_tasks, split_key) \cup
                    {[key |-> split_key, remaining |-> SPLIT_GROUP_TIMEOUT, cancelled |-> FALSE]}
               /\ splitLog' = [splitLog EXCEPT ![split_key] = Append(@, messages)]
               /\ pending_media_groups' = RemoveKey(pending_media_groups, g)
               /\ UNCHANGED << inflight, submitted >>
          ELSE IF split_key # NoKey /\ split_key \notin DOMAIN pending_split_groups
          THEN \* start a new split group tracker, return, clean up
               /\ pending_split_groups' =
                    PutKey(pending_split_groups, split_key,
                           [groups |-> AppendGroup(<<>>, g, messages), processed |-> FALSE])
               /\ split_tasks' = split_tasks \cup
                    {[key |-> split_key, remaining |-> SPLIT_GROUP_TIMEOUT, cancelled |-> FALSE]}
               /\ splitLog' = PutKey(splitLog, split_key, <<messages>>)
               /\ pending_media_groups' = RemoveKey(pending_media_groups, g)
               /\ UNCHANGED << inflight, submitted >>
          ELSE \* no caption, or the split group is already being processed: download now
               /\ pending_media_groups' = [pending_media_groups EXCEPT ![g].processed = TRUE]
               /\ inflight' = inflight \cup {u}
               /\ submitted' = Append(submitted, u)
               /\ UNCHANGED << pending_split_groups, split_tasks, splitLog >>
  /\ UNCHANGED << nextEvent, arrivals, late, sinceLast >>
  /\ UNCHANGED nonAggVars

\* process_group_after_timeout wakes from asyncio.sleep(MEDIA_GROUP_TIMEOUT) and,
\* for a live batch, calls process_media_group up to its first await.
GroupTimerFires(t) ==
  /\ t \in group_tasks
  /\ t.remaining = 0
  /\ LET g == t.key IN
     IF t.cancelled \/ g \notin DOMAIN pending_media_groups
        \/ pending_media_groups[g].processed
     THEN /\ group_tasks' = group_tasks \ {t}
          /\ UNCHANGED << pending_media_groups, pending_split_groups, split_tasks,
                          inflight, sealedUnits, splitLog, submitted >>
     ELSE
       LET messages == pending_media_groups[g].messages
           text == TextOf(messages)
           split_key == get_split_group_key(messages[1].chat, text)
           u == [kind |-> "group", gid |-> g, key |-> NoKey,
                 messages |-> messages, members |-> <<>>]
       IN
       /\ group_tasks' = group_tasks \ {t}
       /\ sealedUnits' = [sealedUnits EXCEPT ![g] = Append(@, messages)]
       /\ IF split_key # NoKey /\ split_key \in DOMAIN pending_split_groups
             /\ ~pending_split_groups[split_key].processed
          THEN \* join the open split group, reset its timer, return, clean up
               /\ pending_split_groups' =
                    [pending_split_groups EXCEPT ![split_key].groups = AppendGroup(@, g, messages)]
               /\ split_tasks' = CancelTasks(split_tasks, split_key) \cup
                    {[key |-> split_key, remaining |-> SPLIT_GROUP_TIMEOUT, cancelled |-> FALSE]}
               /\ splitLog' = [splitLog EXCEPT ![split_key] = Append(@, messages)]
               /\ pending_media_groups' = RemoveKey(pending_media_groups, g)
               /\ UNCHANGED << inflight, submitted >>
          ELSE IF split_key # NoKey /\ split_key \notin DOMAIN pending_split_groups
          THEN \* start a new split group tracker, return, clean up
               /\ pending_split_groups' =
                    PutKey(pending_split_groups, split_key,
                           [groups |-> AppendGroup(<<>>, g, messages), processed |-> FALSE])
               /\ split_tasks' = split_tasks \cup
                    {[key |-> split_key, remaining |-> SPLIT_GROUP_TIMEOUT, cancelled |-> FALSE]}
               /\ splitLog' = PutKey(splitLog, split_key, <<messages>>)
               /\ pending_media_groups' = RemoveKey(pending_media_groups, g)
               /\ UNCHANGED << inflight, submitted >>
          ELSE \* no caption, or the split group is already being processed: download now
               /\ pending_media_groups' = [pending_media_groups EXCEPT ![g].processed = TRUE]
               /\ inflight' = inflight \cup {u}
               /\ submitted' = Append(submitted, u)
               /\ UNCHANGED << pending_split_groups, split_tasks, splitLog >>
  /\ UNCHANGED << nextEvent, arrivals, late, sinceLast >>
  /\ UNCHANGED nonAggVars

\* process_split_after_timeout wakes from asyncio.sleep(SPLIT_GROUP_TIMEOUT) and
\* calls process_split_groups up to the first await of process_media_group.
SplitTimerFires(t) ==
  /\ t \in split_tasks
  /\ t.remaining = 0
  /\ split_tasks' = split_tasks \ {t}
  /\ LET k == t.key IN
     IF t.cancelled \/ k \notin DOMAIN pending_split_groups
        \/ pending_split_groups[k].processed
     THEN UNCHANGED << pending_split_groups, inflight, splitLog, submitted >>
     ELSE
       LET groups == pending_split_groups[k].groups
           all_messages == CombineMessages(groups)
           u == [kind |-> "split", gid |-> groups[1].media_group_id, key |-> k,
                 messages |-> all_messages, members |-> splitLog[k]]
       IN
       /\ pending_split_groups' = [pending_split_groups EXCEPT ![k].processed = TRUE]
       /\ inflight' = inflight \cup {u}
       /\ submitted' = Append(submitted, u)
       /\ splitLog' = RemoveKey(splitLog, k)
  /\ UNCHANGED << pending_media_groups, group_tasks, nextEvent, arrivals, late,
                  sinceLast, sealedUnits >>
  /\ UNCHANGED nonAggVars

\* (mutant) the caller does not remove the registry entry
FinishProcessing_NoCleanup(u) ==
  /\ u \in inflight
  /\ inflight' = inflight \ {u}
  /\ UNCHANGED << pending_media_groups, pending_split_groups, group_tasks, split_tasks,
                  nextEvent, arrivals, late, sinceLast, sealedUnits, splitLog, submitted >>
  /\ UNCHANGED nonAggVars

\* (mutant) the end of one unit clears both registries
FinishProcessing_ClearsAll(u) ==
  /\ u \in inflight
  /\ inflight' = inflight \ {u}
  /\ pending_media_groups' = << >>
  /\ pending_split_groups' = << >>
  /\ UNCHANGED << group_tasks, split_tasks, nextEvent, arrivals, late, sinceLast,
                  sealedUnits, splitLog, submitted >>
  /\ UNCHANGED nonAggVars

\* process_media_group returns (or raises) after download, job and reply; the
\* caller removes its registry entry.
FinishProcessing(u) ==
  /\ u \in inflight
  /\ inflight' = inflight \ {u}
  /\ pending_media_groups' =
       IF u.kind = "group" THEN RemoveKey(pending_media_groups, u.gid) ELSE pending_media_groups
  /\ pending_split_groups' =
       IF u.kind = "split" THEN RemoveKey(pending_split_groups, u.key) ELSE pending_split_groups
  /\ UNCHANGED << group_tasks, split_tasks, nextEvent, arrivals, late, sinceLast,
                  sealedUnits, splitLog, submitted >>
  /\ UNCHANGED nonAggVars

vars == << aggVars, supVars, auxVars >>

NextAgg ==
  \/ \E g \in GroupIds, caption \in Captions :
       \E chat \in ChatsOf(g) : HandleGroupMessage(g, chat, caption)
  \/ Tick
  \/ \E t \in group_tasks : GroupTimerFires(t)
  \/ \E t \in split_tasks : SplitTimerFires(t)
  \/ \E u \in inflight : FinishProcessing(u)

SpecAgg == Init /\ [][NextAgg]_vars

\* ------------------------------------------------------------- properties
Range(s) == { s[i] : i \in 1..Len(s) }

DueFor(g) == \E t \in group_tasks : t.key = g /\ t.remaining = 0

\* C1: for a group id whose events all arrived before the debounce window
\* started by the previous one had elapsed, nothing is handed to processing
\* while the last window runs, and once it has elapsed exactly one unit has
\* been handed to processing, whose message list is the events in arrival order.
C1_OneUnitInArrivalOrder ==
  \A g \in GroupIds :
    ~late[g] =>
      /\ Len(sealedUnits[g]) <= 1
      /\ sinceLast[g] < MEDIA_GROUP_TIMEOUT => sealedUnits[g] = <<>>
      /\ sealedUnits[g] # <<>> => sealedUnits[g][1] = arrivals[g]
      /\ (arrivals[g] # <<>> /\ sinceLast[g] >= MEDIA_GROUP_TIMEOUT /\ ~DueFor(g))
           => sealedUnits[g] = << arrivals[g] >>

C1_Witness ==
  \E g \in GroupIds :
    /\ ~late[g]
    /\ Len(arrivals[g]) >= 2
    /\ sealedUnits[g] = << arrivals[g] >>

\* C2 (as claimed): once the batch of a group id has been sealed and
\* submitted, no further arrival for that group id causes another submission
\* for it: at most one submitted unit holds events of any one group id.
C2_NoFurtherSubmission ==
  \A g \in GroupIds :
    Cardinality({ i \in 1..Len(submitted) :
                    \E m \in Range(submitted[i].messages) : m.gid = g }) <= 1

\* C3: a split group is submitted as one unit whose message list is the
\* message lists of the batches that joined it, in the order they sealed; no
\* event is in two submitted units; a batch waiting in an open split group has
\* not been submitted and a merge timer is pending for it.
C3_SplitMergedOnceInOrder ==
  /\ \A i \in 1..Len(submitted) :
       submitted[i].kind = "split" => submitted[i].messages = Flatten(submitted[i].members)
  /\ \A i, j \in 1..Len(submitted) :
       i # j => Range(submitted[i].messages) \cap Range(submitted[j].messages) = {}
  /\ \A k \in DOMAIN splitLog :
       /\ \A i \in 1..Len(submitted) :
            Range(submitted[i].messages) \cap Range(Flatten(splitLog[k])) = {}
       /\ \E t \in split_tasks : t.key = k /\ ~t.cancelled

C3_Witness ==
  \E i \in 1..Len(submitted) :
    LET u == submitted[i] IN
    /\ u.kind = "split"
    /\ Len(u.members) = 2
    /\ u.members[1][1].gid # u.members[2][1].gid
    /\ u.members[1][1].caption # u.members[2][1].caption
    /\ Len(u.members[1]) = 2
    /\ u.messages = u.members[1] \o u.members[2]

\* =========================================================== supervisor
\* One call of execute_script on a POSIX host.  Output is counted in blocks:
\* a block is what one write puts into a pipe and one read(8192) takes out.
\* The command is a parent process and at most one descendant, which lives in
\* the parent's process group (os.setsid in preexec_fn) and may have inherited
\* the write ends of the pipes.  A zombie (exited, not yet collected by
\* asyncio) still answers to its pid.

MaxWrites == 4

\* for attempt in range(3)
POST_KILL_ATTEMPTS == 3

ExceptionKinds == {"FileNotFoundError", "RuntimeError"}

\* (mutant) the handler catches operating-system errors only
CaughtByExcept_OSErrorOnly(kind) == kind = "FileNotFoundError"

\* except Exception as e: KeyboardInterrupt is a BaseException and passes through
CaughtByExcept(kind) == kind \in ExceptionKinds

\* the dictionaries returned for a missing executable and by the exception handler
ErrorResult(reason) ==
  [returncode |-> -1, success |-> FALSE, timeout |-> FALSE, stdout |-> <<>>,
   stderr |-> <<>>, reason |-> reason, clean |-> FALSE]

\* (mutant) only the timeout proper sets the timeout flag
TimedOutResult_FlagOnTimeoutOnly(out, err, reason) ==
  [returncode |-> -1, success |-> FALSE, timeout |-> (reason = "timeout"),
   stdout |-> out, stderr |-> err, reason |-> reason, clean |-> TRUE]

\* the dictionary returned after a timeout or an interrupt
TimedOutResult(out, err, reason) ==
  [returncode |-> -1, success |-> FALSE, timeout |-> TRUE, stdout |-> out,
   stderr |-> err, reason |-> reason, clean |-> TRUE]

\* the dictionary returned on normal completion
NormalResult(rc, out, err) ==
  [returncode |-> rc, success |-> (rc = 0), timeout |-> FALSE, stdout |-> out,
   stderr |-> err, reason |-> "none", clean |-> TRUE]

\* (mutant) the timed_out flag is not consulted when the result is built
FinalResult_IgnoresTimedOut(to, reason, rc, out, err) == NormalResult(rc, out, err)

\* if timed_out: ... return {...'timeout': True}; else the normal dictionary
FinalResult(to, reason, rc, out, err) ==
  IF to THEN TimedOutResult(out, err, reason) ELSE NormalResult(rc, out, err)

\* (mutant) the wait for read_task has no timeout (0 stands for None)
GraceTimeout_None(signal_type) == 0

\* timeout = 2.0 if signal_type == "interrupt" else 15.0
GraceTimeout(signal_type) == IF signal_type = "interrupt" THEN 2 ELSE 15

\* the post-kill loop has another iteration after the one numbered attempt
PostReadMore(attempt) == attempt + 1 < POST_KILL_ATTEMPTS

\* no process holds the write end of the stream any more
EOF(s) == parent # "running" /\ ~(child = "running" /\ child_pipes)

\* the pid still names a process (running or zombie)
Exists == parent # "none" /\ ~reaped

\* read_streams has finished: process.wait() returned and both loops saw EOF
ReadDone == read_task = "running" /\ reaped /\ \A s \in Streams : rd_eof[s]

\* the descendant as psutil's children(recursive=True) of the parent reports it
TreeChildren == IF parent = "running" /\ child = "running" THEN {"child"} ELSE {}

Log(sig, by) == Append(signals, << sig, by >>)

EnvActive == pc \notin {"idle", "returned", "raised", "exited"}

\* the remainder of execute_script after the output was collected: decode,
\* sanitize, remove the pid from the registry, build the dictionary
Finalize(to, reason, out, err) ==
  /\ pc' = "returned"
  /\ running_processes' = running_processes \ {Pid}
  /\ result' = FinalResult(to, reason, exit_status, out, err)

\* ---------------------------------------------------- supervisor actions
\* execute_script is called; it runs up to its first wait.
\*   how = "missing": the executable is an absolute path that does not exist
\*   how = "spawn_error": create_subprocess_exec raises
\*   how = "spawned": the process starts and is registered
Call(how, with_timeout, psutil) ==
  /\ pc = "idle"
  /\ timeout_cfg' = with_timeout
  /\ psutil_available' = psutil
  /\ IF how = "missing"
     THEN /\ pc' = "returned"
          /\ result' = ErrorResult("not_found")
          /\ fault' = "missing"
          /\ UNCHANGED << parent, running_processes, timeout_task, read_task >>
     ELSE IF how = "spawn_error"
     THEN /\ fault' = "FileNotFoundError"
          /\ IF CaughtByExcept("FileNotFoundError")
             THEN pc' = "returned" /\ result' = ErrorResult("error")
             ELSE pc' = "raised" /\ UNCHANGED result
          /\ UNCHANGED << parent, running_processes, timeout_task, read_task >>
     ELSE /\ parent' = "running"
          /\ running_processes' = running_processes \cup {Pid}
          /\ pc' = IF with_timeout THEN "waiting" ELSE "communicate"
          /\ timeout_task' = IF with_timeout THEN "sleeping" ELSE "none"
          /\ read_task' = "running"
          /\ UNCHANGED << result, fault >>
  /\ UNCHANGED << rd_eof, chunks, bytes, timed_out, interrupt_reason, kill_cont,
                  kill_children, post_stream, post_attempt, exit_status, reaped,
                  child, child_pipes, buf, written, signals, hist >>
  /\ UNCHANGED nonSupVars

\* The parent starts a descendant.
Fork(pipes) ==
  /\ EnvActive
  /\ parent = "running"
  /\ child = "none"
  /\ child' = "running"
  /\ child_pipes' = pipes
  /\ UNCHANGED << pc, timeout_cfg, psutil_available, timeout_task, read_task, rd_eof,
                  chunks, bytes, timed_out, interrupt_reason, kill_cont, kill_children,
                  post_stream, post_attempt, running_processes, result, parent,
                  exit_status, reaped, buf, written, signals, fault, hist >>
  /\ UNCHANGED nonSupVars

\* A process of the command writes one block to a stream.
Write(s) ==
  /\ EnvActive
  /\ ~EOF(s)
  /\ Len(written["stdout"]) + Len(written["stderr"]) < MaxWrites
  /\ LET b == Len(written[s]) + 1 IN
     /\ written' = [written EXCEPT ![s] = Append(@, b)]
     /\ buf' = [buf EXCEPT ![s] = Append(@, b)]
  /\ hist' = IF pc = "grace" /\ parent = "running" /\ interrupt_reason = "timeout"
             THEN hist \cup {"wrote_in_grace"} ELSE hist
  /\ UNCHANGED << pc, timeout_cfg, psutil_available, timeout_task, read_task, rd_eof,
                  chunks, bytes, timed_out, interrupt_reason, kill_cont, kill_children,
                  post_stream, post_attempt, running_processes, result, parent,
                  exit_status, reaped, child, child_pipes, signals, fault >>
  /\ UNCHANGED nonSupVars

\* The parent exits on its own (also in response to SIGINT or SIGTERM).
ParentExit(code) ==
  /\ EnvActive
  /\ parent = "running"
  /\ parent' = "exited"
  /\ exit_status' = code
  /\ hist' = IF code = 0 /\ timeout_task = "sleeping"
             THEN hist \cup {"exit0_before_timeout"} ELSE hist
  /\ UNCHANGED << pc, timeout_cfg, psutil_available, timeout_task, read_task, rd_eof,
                  chunks, bytes, timed_out, interrupt_reason, kill_cont, kill_children,
                  post_stream, post_attempt, running_processes, result, reaped, child,
                  child_pipes, buf, written, signals, fault >>
  /\ UNCHANGED nonSupVars

\* The descendant exits on its own.
ChildExit ==
  /\ EnvActive
  /\ child = "running"
  /\ child' = "exited"
  /\ UNCHANGED << pc, timeout_cfg, psutil_available, timeout_task, read_task, rd_eof,
                  chunks, bytes, timed_out, interrupt_reason, kill_cont, kill_children,
                  post_stream, post_attempt, running_processes, result, parent,
                  exit_status, reaped, child_pipes, buf, written, signals, fault, hist >>
  /\ UNCHANGED nonSupVars

\* asyncio's child watcher collects the exited parent: process.returncode is
\* set and process.wait() returns.
Reap ==
  /\ EnvActive
  /\ parent = "exited"
  /\ ~reaped
  /\ reaped' = TRUE
  /\ UNCHANGED << pc, timeout_cfg, psutil_available, timeout_task, read_task, rd_eof,
                  chunks, bytes, timed_out, interrupt_reason, kill_cont, kill_children,
                  post_stream, post_attempt, running_processes, result, parent,
                  exit_status, child, child_pipes, buf, written, signals, fault, hist >>
  /\ UNCHANGED nonSupVars

\* One iteration of read_stdout / read_stderr (or of communicate's reader):
\* a chunk is appended, or the empty read at EOF ends the loop.
ReadStream(s) ==
  /\ pc \in {"waiting", "communicate", "grace"}
  /\ read_task = "running"
  /\ ~rd_eof[s]
  /\ IF buf[s] # <<>>
     THEN /\ chunks' = [chunks EXCEPT ![s] = Append(@, Head(buf[s]))]
          /\ buf' = [buf EXCEPT ![s] = Tail(@)]
          /\ UNCHANGED rd_eof
     ELSE /\ EOF(s)
          /\ rd_eof' = [rd_eof EXCEPT ![s] = TRUE]
          /\ UNCHANGED << chunks, buf >>
  /\ UNCHANGED << pc, timeout_cfg, psutil_available, timeout_task, read_task,
                  bytes, timed_out, interrupt_reason, kill_cont, kill_children,
                  post_stream, post_attempt, running_processes, result, parent,
                  exit_status, reaped, child, child_pipes, written, signals, fault, hist >>
  /\ UNCHANGED nonSupVars

\* send_timeout_signal sending the terminate signal instead of SIGINT
TimeoutFires_Terminate ==
  /\ pc \notin {"idle", "raised", "exited"}
  /\ timeout_task = "sleeping"
  /\ timeout_task' = "done"
  /\ signals' = IF Exists THEN Log("SIGTERM", "timeout") ELSE signals
  /\ UNCHANGED << pc, timeout_cfg, psutil_available, read_task, rd_eof, chunks, bytes,
                  timed_out, interrupt_reason, kill_cont, kill_children, post_stream,
                  post_attempt, running_processes, result, parent, exit_status,
                  reaped, child, child_pipes, buf, written, fault, hist >>
  /\ UNCHANGED nonSupVars

\* send_timeout_signal wakes from asyncio.sleep(timeout) and sends SIGINT to
\* the process group, if the pid still names a process.
TimeoutFires ==
  /\ pc \notin {"idle", "raised", "exited"}
  /\ timeout_task = "sleeping"
  /\ timeout_task' = "done"
  /\ signals' = IF Exists THEN Log("SIGINT", "timeout") ELSE signals
  /\ UNCHANGED << pc, timeout_cfg, psutil_available, read_task, rd_eof, chunks, bytes,
                  timed_out, interrupt_reason, kill_cont, kill_children, post_stream,
                  post_attempt, running_processes, result, parent, exit_status,
                  reaped, child, child_pipes, buf, written, fault, hist >>
  /\ UNCHANGED nonSupVars

\* (mutant) the timer is left running after a normal completion
WaitReturns_NoCancel ==
  /\ pc = "waiting"
  /\ timeout_task = "done" \/ ReadDone
  /\ IF timeout_task = "done"
     THEN /\ timed_out' = TRUE
          /\ interrupt_reason' = "timeout"
          /\ pc' = "grace"
          /\ hist' = IF ReadDone THEN hist \cup {"both_done"} ELSE hist
          /\ UNCHANGED << timeout_task, bytes, running_processes, result >>
     ELSE /\ timed_out' = FALSE
          /\ bytes' = chunks
          /\ Finalize(FALSE, "none", chunks["stdout"], chunks["stderr"])
          /\ UNCHANGED << timeout_task, interrupt_reason, hist >>
  /\ UNCHANGED << timeout_cfg, psutil_available, read_task, rd_eof, chunks, kill_cont,
                  kill_children, post_stream, post_attempt, parent, exit_status,
                  reaped, child, child_pipes, buf, written, signals, fault >>
  /\ UNCHANGED nonSupVars

\* asyncio.wait([timeout_task, read_task], FIRST_COMPLETED) returns; the
\* timeout branch is tested first.
WaitReturns ==
  /\ pc = "waiting"
  /\ timeout_task = "done" \/ ReadDone
  /\ IF timeout_task = "done"
     THEN /\ timed_out' = TRUE
          /\ interrupt_reason' = "timeout"
          /\ pc' = "grace"
          /\ hist' = IF ReadDone THEN hist \cup {"both_done"} ELSE hist
          /\ UNCHANGED << timeout_task, bytes, running_processes, result >>
     ELSE /\ timed_out' = FALSE
          /\ timeout_task' = "cancelled"
          /\ bytes' = chunks
          /\ Finalize(FALSE, "none", chunks["stdout"], chunks["stderr"])
          /\ UNCHANGED << interrupt_reason, hist >>
  /\ UNCHANGED << timeout_cfg, psutil_available, read_task, rd_eof, chunks, kill_cont,
                  kill_children, post_stream, post_attempt, parent, exit_status,
                  reaped, child, child_pipes, buf, written, signals, fault >>
  /\ UNCHANGED nonSupVars

\* (mutant) communicate() returns without waiting for the exit and for EOF
CommunicateReturns_Early ==
  /\ pc = "communicate"
  /\ bytes' = chunks
  /\ Finalize(FALSE, "none", chunks["stdout"], chunks["stderr"])
  /\ UNCHANGED << timeout_cfg, psutil_available, timeout_task, read_task, rd_eof,
                  chunks, timed_out, interrupt_reason, kill_cont, kill_children,
                  post_stream, post_attempt, parent, exit_status, reaped, child,
                  child_pipes, buf, written, signals, fault, hist >>
  /\ UNCHANGED nonSupVars

\* process.communicate() returns (no timeout was passed).
CommunicateReturns ==
  /\ pc = "communicate"
  /\ ReadDone
  /\ bytes' = chunks
  /\ Finalize(FALSE, "none", chunks["stdout"], chunks["stderr"])
  /\ UNCHANGED << timeout_cfg, psutil_available, timeout_task, read_task, rd_eof,
                  chunks, timed_out, interrupt_reason, kill_cont, kill_children,
                  post_stream, post_attempt, parent, exit_status, reaped, child,
                  child_pipes, buf, written, signals, fault, hist >>
  /\ UNCHANGED nonSupVars

\* KeyboardInterrupt is raised into the wait of the timeout path: the handler
\* cancels timeout_task and sends SIGINT to the process group.
Interrupt ==
  /\ pc = "waiting"
  /\ timed_out' = TRUE
  /\ interrupt_reason' = "interrupt"
  /\ timeout_task' = IF timeout_task = "sleeping" THEN "cancelled" ELSE timeout_task
  /\ signals' = IF Exists THEN Log("SIGINT", "interrupt") ELSE signals
  /\ pc' = "grace"
  /\ UNCHANGED << timeout_cfg, psutil_available, read_task, rd_eof, chunks, bytes,
                  kill_cont, kill_children, post_stream, post_attempt,
                  running_processes, result, parent, exit_status, reaped, child,
                  child_pipes, buf, written, fault, hist >>
  /\ UNCHANGED nonSupVars

\* An exception of the given kind is raised inside the try block of
\* execute_script while it waits for the command or right after the wait
\* (decode, sanitize); KeyboardInterrupt on the path without timeout is one.
Fault(kind) ==
  /\ \/ pc \in {"waiting", "communicate"} /\ kind = "RuntimeError"
     \/ pc = "communicate" /\ kind = "KeyboardInterrupt"
  /\ fault' = kind
  /\ IF ~CaughtByExcept(kind)
     THEN /\ pc' = "raised"
          /\ UNCHANGED << kill_cont, result >>
     ELSE IF ~reaped
     THEN /\ pc' = "kill_start"
          /\ kill_cont' = "except"
          /\ UNCHANGED result
     ELSE /\ pc' = "returned"
          /\ result' = ErrorResult("error")
          /\ UNCHANGED kill_cont
  /\ UNCHANGED << timeout_cfg, psutil_available, timeout_task, read_task, rd_eof,
                  chunks, bytes, timed_out, interrupt_reason, kill_children,
                  post_stream, post_attempt, running_processes, parent, exit_status,
                  reaped, child, child_pipes, buf, written, signals, hist >>
  /\ UNCHANGED nonSupVars

\* _wait_for_read_task_and_collect_output: read_task is done, or completes
\* within the grace period; the process has exited, so nothing is killed.
GraceReadDone ==
  /\ pc = "grace"
  /\ ReadDone
  /\ bytes' = chunks
  /\ Finalize(TRUE, interrupt_reason, chunks["stdout"], chunks["stderr"])
  /\ UNCHANGED << timeout_cfg, psutil_available, timeout_task, read_task, rd_eof,
                  chunks, timed_out, interrupt_reason, kill_cont, kill_children,
                  post_stream, post_attempt, parent, exit_status, reaped, child,
                  child_pipes, buf, written, signals, fault, hist >>
  /\ UNCHANGED nonSupVars

\* read_task has something to do right now: a block or an EOF to take from a
\* stream, or the exit of the parent to collect
ReadReady ==
  \/ \E s \in Streams : ~rd_eof[s] /\ (buf[s] # <<>> \/ EOF(s))
  \/ parent = "exited" /\ ~reaped

\* _wait_for_read_task_and_collect_output: the grace period runs out;
\* read_task is cancelled and what it collected is joined.  A process whose
\* returncode is still None is then killed, else the result is built.  The
\* grace period is seconds long, so read_task is not cut off in the middle of
\* work it can do at once.
GraceExpires ==
  /\ pc = "grace"
  /\ ~ReadDone
  /\ ~ReadReady
  /\ GraceTimeout(interrupt_reason) > 0
  /\ read_task' = "cancelled"
  /\ bytes' = chunks
  /\ hist' = IF parent = "running" /\ interrupt_reason = "timeout"
             THEN hist \cup {"alive_after_grace"} ELSE hist
  /\ IF ~reaped
     THEN /\ pc' = "kill_start"
          /\ kill_cont' = "timeout"
          /\ UNCHANGED << running_processes, result >>
     ELSE /\ Finalize(TRUE, interrupt_reason, chunks["stdout"], chunks["stderr"])
          /\ UNCHANGED kill_cont
  /\ UNCHANGED << timeout_cfg, psutil_available, timeout_task, rd_eof, chunks,
                  timed_out, interrupt_reason, kill_children, post_stream,
                  post_attempt, parent, exit_status, reaped, child, child_pipes,
                  buf, written, signals, fault >>
  /\ UNCHANGED nonSupVars

\* what the caller of kill_process_tree does when it returns
AfterKill ==
  /\ post_stream' = "stdout"
  /\ post_attempt' = 0
  /\ IF kill_cont = "except"
     THEN /\ pc' = "returned"
          /\ running_processes' = running_processes \ {Pid}
          /\ result' = ErrorResult("error")
     ELSE /\ pc' = "postread"
          /\ UNCHANGED << running_processes, result >>

\* kill_process_tree up to its first wait.  With psutil the lookup of the pid
\* fails when the process is gone (NoSuchProcess) and may fail otherwise
\* (AccessDenied); the function then returns False and, on the timeout path,
\* the fallback sends process.terminate().  Without psutil SIGINT goes to the pid.
KillStart(lookup) ==
  /\ pc = "kill_start"
  /\ lookup = "ok" => Exists
  /\ ~psutil_available => (lookup = "ok" <=> Exists)
  /\ IF lookup = "ok"
     THEN /\ signals' = Log("SIGINT", "kill_parent")
          /\ kill_children' = IF psutil_available THEN TreeChildren ELSE {}
          /\ pc' = IF psutil_available THEN "kill_wait1" ELSE "kill_np_wait"
          /\ UNCHANGED << post_stream, post_attempt, running_processes, result >>
     ELSE IF psutil_available /\ kill_cont = "timeout"
     THEN /\ signals' = IF reaped THEN signals ELSE Log("SIGTERM", "fallback")
          /\ pc' = "fallback_wait"
          /\ UNCHANGED << kill_children, post_stream, post_attempt,
                          running_processes, result >>
     ELSE /\ AfterKill
          /\ UNCHANGED << signals, kill_children >>
  /\ UNCHANGED << timeout_cfg, psutil_available, timeout_task, read_task, rd_eof,
                  chunks, bytes, timed_out, interrupt_reason, kill_cont, parent,
                  exit_status, reaped, child, child_pipes, buf, written, fault, hist >>
  /\ UNCHANGED nonSupVars

\* kill_process_tree with psutil, after the wait that follows SIGINT to the
\* parent: if the parent is gone the children listed at the start that still
\* run are killed; else SIGINT goes to the parent and its current children.
KillWait1Done ==
  /\ pc = "kill_wait1"
  /\ IF ~Exists
     THEN LET hit == "child" \in kill_children /\ child = "running" IN
          /\ child' = IF hit THEN "exited" ELSE child
          /\ signals' = IF hit THEN Log("SIGKILL", "children") ELSE signals
          /\ AfterKill
          /\ UNCHANGED kill_children
     ELSE /\ kill_children' = TreeChildren
          /\ signals' = Log("SIGINT", "tree")
          /\ pc' = "kill_wait2"
          /\ UNCHANGED << child, post_stream, post_attempt, running_processes, result >>
  /\ UNCHANGED << timeout_cfg, psutil_available, timeout_task, read_task, rd_eof,
                  chunks, bytes, timed_out, interrupt_reason, kill_cont, parent,
                  exit_status, reaped, child_pipes, buf, written, fault, hist >>
  /\ UNCHANGED nonSupVars

\* kill_process_tree with psutil, after wait_procs: SIGKILL to every process
\* of the list that is still alive.
KillWait2Done ==
  /\ pc = "kill_wait2"
  /\ LET hitP == parent = "running"
         hitC == "child" \in kill_children /\ child = "running" IN
     /\ parent' = IF hitP THEN "exited" ELSE parent
     /\ exit_status' = IF hitP THEN -9 ELSE exit_status
     /\ child' = IF hitC THEN "exited" ELSE child
     /\ signals' = IF hitP \/ hitC THEN Log("SIGKILL", "tree") ELSE signals
  /\ AfterKill
  /\ UNCHANGED << timeout_cfg, psutil_available, timeout_task, read_task, rd_eof,
                  chunks, bytes, timed_out, interrupt_reason, kill_cont,
                  kill_children, reaped, child_pipes, buf, written, fault, hist >>
  /\ UNCHANGED nonSupVars

\* kill_process_tree without psutil, after asyncio.sleep(2): if the pid still
\* names a process its process group gets SIGTERM and then SIGKILL.
KillNpWaitDone ==
  /\ pc = "kill_np_wait"
  /\ IF Exists
     THEN /\ parent' = "exited"
          /\ exit_status' = IF parent = "running" THEN -9 ELSE exit_status
          /\ child' = IF child = "running" THEN "exited" ELSE child
          /\ signals' = Append(Log("SIGTERM", "group"), << "SIGKILL", "group" >>)
     ELSE UNCHANGED << parent, exit_status, child, signals >>
  /\ AfterKill
  /\ UNCHANGED << timeout_cfg, psutil_available, timeout_task, read_task, rd_eof,
                  chunks, bytes, timed_out, interrupt_reason, kill_cont,
                  kill_children, reaped, child_pipes, buf, written, fault, hist >>
  /\ UNCHANGED nonSupVars

\* fallback: wait_for(process.wait(), 5.0) returns, or later process.wait() does
FallbackWaitDone ==
  /\ pc \in {"fallback_wait", "fallback_kill_wait"}
  /\ reaped
  /\ pc' = "postread"
  /\ post_stream' = "stdout"
  /\ post_attempt' = 0
  /\ UNCHANGED << timeout_cfg, psutil_available, timeout_task, read_task, rd_eof,
                  chunks, bytes, timed_out, interrupt_reason, kill_cont, kill_children,
                  running_processes, result, parent, exit_status, reaped, child,
                  child_pipes, buf, written, signals, fault, hist >>
  /\ UNCHANGED nonSupVars

\* fallback: wait_for(process.wait(), 5.0) times out: process.kill(), then
\* await process.wait() without a timeout
FallbackWaitTimeout ==
  /\ pc = "fallback_wait"
  /\ ~reaped
  /\ parent' = "exited"
  /\ exit_status' = IF parent = "running" THEN -9 ELSE exit_status
  /\ signals' = Log("SIGKILL", "fallback")
  /\ pc' = "fallback_kill_wait"
  /\ UNCHANGED << timeout_cfg, psutil_available, timeout_task, read_task, rd_eof,
                  chunks, bytes, timed_out, interrupt_reason, kill_cont, kill_children,
                  post_stream, post_attempt, running_processes, result, reaped, child,
                  child_pipes, buf, written, fault, hist >>
  /\ UNCHANGED nonSupVars

\* (mutant) a chunk read after the kill replaces what was collected
PostRead_Overwrites ==
  /\ pc = "postread"
  /\ LET s == post_stream
         got == buf[s] # <<>>
         at_eof == buf[s] = <<>> /\ EOF(s)
         newbytes == IF got THEN [bytes EXCEPT ![s] = << Head(buf[s]) >>] ELSE bytes
         again == ~at_eof /\ PostReadMore(post_attempt)
     IN
     /\ bytes' = newbytes
     /\ buf' = IF got THEN [buf EXCEPT ![s] = Tail(@)] ELSE buf
     /\ IF again
        THEN /\ post_attempt' = post_attempt + 1
             /\ UNCHANGED << post_stream, pc, running_processes, result >>
        ELSE IF s = "stdout"
        THEN /\ post_stream' = "stderr"
             /\ post_attempt' = 0
             /\ UNCHANGED << pc, running_processes, result >>
        ELSE /\ Finalize(TRUE, interrupt_reason, newbytes["stdout"], newbytes["stderr"])
             /\ UNCHANGED << post_stream, post_attempt >>
  /\ UNCHANGED << timeout_cfg, psutil_available, timeout_task, read_task, rd_eof,
                  chunks, timed_out, interrupt_reason, kill_cont, kill_children,
                  parent, exit_status, reaped, child, child_pipes, written, signals,
                  fault, hist >>
  /\ UNCHANGED nonSupVars

\* One iteration of a post-kill read loop of
\* _kill_process_and_read_remaining_output: at_eof() ends the loop, a chunk is
\* appended, or the read times out after 1 s; after the last iteration of the
\* stderr loop the result is built.
PostRead ==
  /\ pc = "postread"
  /\ LET s == post_stream
         got == buf[s] # <<>>
         at_eof == buf[s] = <<>> /\ EOF(s)
         newbytes == IF got THEN [bytes EXCEPT ![s] = Append(@, Head(buf[s]))] ELSE bytes
         again == ~at_eof /\ PostReadMore(post_attempt)
     IN
     /\ bytes' = newbytes
     /\ buf' = IF got THEN [buf EXCEPT ![s] = Tail(@)] ELSE buf
     /\ IF again
        THEN /\ post_attempt' = post_attempt + 1
             /\ UNCHANGED << post_stream, pc, running_processes, result >>
        ELSE IF s = "stdout"
        THEN /\ post_stream' = "stderr"
             /\ post_attempt' = 0
             /\ UNCHANGED << pc, running_processes, result >>
        ELSE /\ Finalize(TRUE, interrupt_reason, newbytes["stdout"], newbytes["stderr"])
             /\ UNCHANGED << post_stream, post_attempt >>
  /\ UNCHANGED << timeout_cfg, psutil_available, timeout_task, read_task, rd_eof,
                  chunks, timed_out, interrupt_reason, kill_cont, kill_children,
                  parent, exit_status, reaped, child, child_pipes, written, signals,
                  fault, hist >>
  /\ UNCHANGED nonSupVars

\* signal_handler: the service receives SIGINT or SIGTERM; for every pid of the
\* registry that still names a process, the process and its children (psutil)
\* or its process group (no psutil) get SIGTERM and then SIGKILL; sys.exit(0).
ShutdownSweep ==
  /\ pc \notin {"idle", "exited"}
  /\ pc' = "exited"
  /\ hist' = hist \cup {"swept"}
  /\ IF Pid \in running_processes /\ Exists
     THEN LET hitC == child = "running" /\ (psutil_available => parent = "running") IN
          /\ parent' = "exited"
          /\ exit_status' = IF parent = "running" THEN -9 ELSE exit_status
          /\ child' = IF hitC THEN "exited" ELSE child
          /\ signals' = Append(Log("SIGTERM", "sweep"), << "SIGKILL", "sweep" >>)
     ELSE UNCHANGED << parent, exit_status, child, signals >>
  /\ UNCHANGED << timeout_cfg, psutil_available, timeout_task, read_task, rd_eof,
                  chunks, bytes, timed_out, interrupt_reason, kill_cont, kill_children,
                  post_stream, post_attempt, running_processes, result, reaped,
                  child_pipes, buf, written, fault >>
  /\ UNCHANGED nonSupVars

SupervisorStep ==
  \/ TimeoutFires
  \/ WaitReturns
  \/ CommunicateReturns
  \/ GraceReadDone
  \/ GraceExpires
  \/ KillWait1Done
  \/ KillWait2Done
  \/ KillNpWaitDone
  \/ FallbackWaitDone
  \/ FallbackWaitTimeout
  \/ PostRead

NextSup ==
  \/ \E how \in {"missing", "spawn_error", "spawned"}, with_timeout \in BOOLEAN,
        psutil \in BOOLEAN : Call(how, with_timeout, psutil)
  \/ \E pipes \in BOOLEAN : Fork(pipes)
  \/ \E s \in Streams : Write(s)
  \/ \E code \in {0, 1} : ParentExit(code)
  \/ ChildExit
  \/ Reap
  \/ \E s \in Streams : ReadStream(s)
  \/ Interrupt
  \/ \E kind \in {"RuntimeError", "KeyboardInterrupt"} : Fault(kind)
  \/ \E lookup \in {"ok", "failed"} : KillStart(lookup)
  \/ SupervisorStep
  \/ ShutdownSweep

SpecSup == Init /\ [][NextSup]_vars

\* The event loop keeps running: timers expire, waits that can return do, the
\* steps of the kill sequence follow one another, and an exited process is
\* collected.  Nothing is assumed about the command.
LiveSup ==
  /\ SpecSup
  /\ WF_vars(SupervisorStep)
  /\ WF_vars(\E s \in Streams : ReadStream(s))
  /\ WF_vars(\E lookup \in {"ok", "failed"} : KillStart(lookup))
  /\ WF_vars(Reap)

\* ------------------------------------------------ supervisor properties
\* C4: when the timeout elapsed, SIGINT was sent and the command was still
\* running when the grace period ran out, the dictionary execute_script
\* returns has timeout true and success false.
C4_TimeoutKillResult ==
  (pc = "returned" /\ "alive_after_grace" \in hist) =>
    (result.timeout /\ ~result.success)

C4_Witness ==
  /\ pc = "returned"
  /\ "alive_after_grace" \in hist
  /\ signals # <<>> /\ signals[1] = << "SIGINT", "timeout" >>
  /\ exit_status = -9
  /\ result.timeout /\ ~result.success

\* C5 (as claimed): after a timeout whose command was still running when the
\* grace period ran out, the returned stdout and stderr are exactly the blocks
\* the command wrote to each stream up to the return, whatever their number
\* and timing.
C5_NoByteLost ==
  (pc = "returned" /\ "alive_after_grace" \in hist) =>
    (result.stdout = written["stdout"] /\ result.stderr = written["stderr"])

\* C6 (as claimed): a call with a timeout whose command exited with code 0
\* while the timeout had not yet elapsed, and that met no interrupt and no
\* exception, returns success true, no timeout flag, and every block written.
C6_ExitZeroSucceeds ==
  (pc = "returned" /\ "exit0_before_timeout" \in hist /\ fault = "none"
     /\ interrupt_reason # "interrupt") =>
    (result.success /\ ~result.timeout
       /\ result.stdout = written["stdout"] /\ result.stderr = written["stderr"])

\* C7: a missing executable, a failing spawn, or an exception raised while the
\* process is supervised never leaves execute_script by raising; the call
\* returns a dictionary with success false and returncode -1.
C7_FailuresAreReturned ==
  (fault \in ExceptionKinds \cup {"missing"}) =>
    /\ pc # "raised"
    /\ pc = "returned" => (~result.success /\ result.returncode = -1)

C7_Witness ==
  /\ pc = "returned"
  /\ fault = "RuntimeError"
  /\ parent = "running" \/ exit_status = -9
  /\ ~result.success /\ result.returncode = -1

\* C8 (as claimed): when execute_script has returned for a process it spawned
\* and registered, the pid is not in running_processes.
C8_PidRemovedOnReturn ==
  (pc = "returned" /\ parent # "none") => Pid \notin running_processes

\* C9 (as claimed): a live spawned process is registered, a live descendant is
\* in the tree of a registered pid, and after the shutdown sweep no process of
\* the command runs.
C9_LiveProcessesInRegisteredTree ==
  /\ parent = "running" => Pid \in running_processes
  /\ child = "running" => (Pid \in running_processes /\ parent = "running")
  /\ pc = "exited" => (parent # "running" /\ child # "running")

\* C10: with a timeout configured and the event loop running, a call that
\* waits for its command eventually returns a dictionary (or the service is
\* shut down), whatever the command and its descendant do.
C10_EventuallyReturns == (pc = "waiting") ~> (pc \in {"returned", "exited"})

C10_Witness ==
  /\ pc = "returned"
  /\ timeout_cfg
  /\ result.timeout
  /\ child = "running" /\ child_pipes
  /\ "alive_after_grace" \in hist

\* ================================================================ replies
\* One job from the moment it is submitted for processing (process_media_group
\* past the split check, or handle_message for a text with URLs) to the end of
\* the function: the acknowledgment, the job, the final message and, after an
\* exception, the exception notice, each sent by send_message_with_retry.
\* reply.shown is what the user sees: "processing" for the acknowledgment and
\* the kind of every terminal message.

\* max_retries=3, retry_delay=1.0
MAX_RETRIES == 3
RETRY_DELAY == 1

RECURSIVE Pow2(_)
Pow2(n) == IF n = 0 THEN 1 ELSE 2 * Pow2(n - 1)

\* (mutant) the same delay before every retry
Backoff_Constant(attempt) == RETRY_DELAY

\* wait_time = retry_delay * (2 ** attempt), attempt counted from 0
Backoff(attempt) == RETRY_DELAY * Pow2(attempt)

\* the text of the final message for the result of the job
FinalKind(outcome) ==
  IF outcome = "link" THEN "success_link"
  ELSE IF outcome = "degraded" THEN "success_degraded"
  ELSE "error"

Terminals(shown) == { i \in 1..Len(shown) : shown[i] # "processing" }

\* status_msg.edit_text(text): the acknowledgment shown is replaced
EditShown(shown, text) ==
  [i \in 1..Len(shown) |-> IF shown[i] = "processing" THEN text ELSE shown[i]]

\* a new call of send_message_with_retry
NewSend(r, stage) == [r EXCEPT !.pc = stage, !.attempts = 0, !.waits = <<>>, !.ended = "running"]

\* (mutant) the acknowledgment is sent before the downloaded files are counted
StartJob_AckBeforeCheck(media) ==
  /\ reply.pc = "idle"
  /\ reply' = NewSend([reply EXCEPT !.media = IF media THEN "some" ELSE "none",
                                    !.entry = "pending"], "ack")
  /\ UNCHANGED << pure, nonAuxVars >>

\* The job is submitted.  A media group none of whose files could be
\* downloaded returns at once; else the acknowledgment is sent.  The unit's
\* registry entry (in pending_media_groups or pending_split_groups) is still
\* there while process_media_group runs.
StartJob(media) ==
  /\ reply.pc = "idle"
  /\ reply' = IF media
              THEN NewSend([reply EXCEPT !.media = "some", !.entry = "pending"], "ack")
              ELSE [reply EXCEPT !.pc = "done", !.media = "none", !.entry = "pending"]
  /\ UNCHANGED << pure, nonAuxVars >>

\* process_media_group has returned to the timer task that called it, which
\* deletes the registry entry
CallerCleanup ==
  /\ reply.pc = "done"
  /\ reply.entry = "pending"
  /\ reply' = [reply EXCEPT !.entry = "removed"]
  /\ UNCHANGED << pure, nonAuxVars >>

\* One iteration of the loop of send_message_with_retry: the request succeeds,
\* fails with TimedOut / NetworkError ("transient"), or fails with another
\* exception ("fatal"); with what the caller does when the call ends.
SendAttempt(outcome) ==
  /\ reply.pc \in {"ack", "final", "notice"}
  /\ LET stage == reply.pc
         n == reply.attempts + 1
         text == IF stage = "ack" THEN "processing"
                 ELSE IF stage = "notice" THEN "exception"
                 ELSE FinalKind(reply.outcome)
         edit == stage = "final" /\ reply.status_msg
         sent == [reply EXCEPT !.attempts = n, !.ended = "sent",
                    !.shown = IF edit THEN EditShown(@, text) ELSE Append(@, text),
                    !.status_msg = IF stage = "ack" THEN TRUE ELSE @,
                    !.pc = IF stage = "ack" THEN "job" ELSE "done"]
         none == [reply EXCEPT !.attempts = n, !.ended = "none",
                    !.pc = IF stage = "ack" THEN "job" ELSE "done"]
         raised == [reply EXCEPT !.attempts = n, !.ended = "raised",
                    !.pc = IF stage = "ack" THEN "job"
                           ELSE IF stage = "final" THEN "raised_final" ELSE "done"]
     IN
     reply' = IF outcome = "ok" THEN sent
              ELSE IF outcome = "fatal" THEN raised
              ELSE IF reply.attempts < MAX_RETRIES - 1
              THEN [reply EXCEPT !.attempts = n, !.waits = Append(@, Backoff(reply.attempts))]
              ELSE none
  /\ UNCHANGED << pure, nonAuxVars >>

\* build_command and execute_script end: with a result that yields a link, a
\* success without link, an error or a timeout, or with an exception.
JobEnds(outcome) ==
  /\ reply.pc = "job"
  /\ reply' = IF outcome = "exception"
              THEN NewSend([reply EXCEPT !.outcome = outcome], "notice")
              ELSE NewSend([reply EXCEPT !.outcome = outcome], "final")
  /\ UNCHANGED << pure, nonAuxVars >>

\* except Exception after the final send raised: the exception notice is sent
ExceptAfterFinal ==
  /\ reply.pc = "raised_final"
  /\ reply' = NewSend(reply, "notice")
  /\ UNCHANGED << pure, nonAuxVars >>

NextReply ==
  \/ \E media \in BOOLEAN : StartJob(media)
  \/ \E outcome \in {"ok", "transient", "fatal"} : SendAttempt(outcome)
  \/ \E outcome \in {"link", "degraded", "error", "timeout", "exception"} : JobEnds(outcome)
  \/ ExceptAfterFinal
  \/ CallerCleanup

SpecReply == Init /\ [][NextReply]_vars

\* C11 (as claimed): a job that was submitted, whose command was run (or
\* raised) and whose processing has ended has shown the user exactly one
\* terminal message.
C11_ExactlyOneTerminal ==
  (reply.pc = "done" /\ reply.outcome # "none") =>
    Cardinality(Terminals(reply.shown)) = 1

\* C17: a call of send_message_with_retry makes at most MAX_RETRIES attempts;
\* the wait after the k-th transient failure that is not the last attempt is
\* RETRY_DELAY * 2^(k-1); the call returns None exactly after MAX_RETRIES
\* transient failures; a non-transient error ends it at once by raising.
C17_BoundedBackoff ==
  /\ reply.attempts <= MAX_RETRIES
  /\ \A k \in 1..Len(reply.waits) : reply.waits[k] = RETRY_DELAY * Pow2(k - 1)
  /\ reply.ended = "running" => Len(reply.waits) = reply.attempts
  /\ reply.ended \in {"sent", "raised"} => Len(reply.waits) = reply.attempts - 1
  /\ reply.ended = "none" =>
       (reply.attempts = MAX_RETRIES /\ Len(reply.waits) = MAX_RETRIES - 1)

C17_Witness ==
  /\ reply.ended = "none"
  /\ reply.attempts = MAX_RETRIES
  /\ reply.waits = << 1, 2 >>

\* ====================================================== extract_event_id
\* The text is a sequence of items.  Hexadecimal runs are counted in units of
\* 32 characters, so a 64-hex token is a run of two units; "p" and "q" are two
\* different units.  The items:
\*   url(run)      https://host/<run>        (no space, no ")" inside)
\*   bare(run)     <run> between spaces
\*   json(id, o)   a brace-free JSON object with "id":"<id>" and, by o,
\*                 "kind":1 after the id ("id_kind"), before it ("kind_id"),
\*                 or no kind at all ("id_only", the id being the first field)
\*   success       the words Successfully published
\*   nl            a line break
\* Every regular expression of the function is evaluated on that structure.

MaxItems == 3

T1 == << "p", "q" >>
T2 == << "q", "q" >>

UrlRuns == { T1, T2, << "p", "p", "q" >> }

Items ==
  { [t |-> "url", run |-> r, o |-> "-"] : r \in UrlRuns } \cup
  { [t |-> "bare", run |-> r, o |-> "-"] : r \in {T1, T2} } \cup
  { [t |-> "json", run |-> r, o |-> o] : r \in {T1, T2}, o \in {"id_kind", "kind_id", "id_only"} } \cup
  { [t |-> "success", run |-> <<>>, o |-> "-"], [t |-> "nl", run |-> <<>>, o |-> "-"] }

Texts == UNION { [1..k -> Items] : k \in 1..MaxItems }

\* the return value None
None == <<>>

\* re.findall(r'([0-9a-fA-F]{64})', url): leftmost matches that do not overlap
FindHex(run) == { SubSeq(run, 2 * k - 1, 2 * k) : k \in 1..(Len(run) \div 2) }

\* url_hex: the 64-hex strings found in the matches of https?://[^\s\)]+
UrlHex(text) ==
  UNION { FindHex(text[i].run) : i \in { j \in 1..Len(text) : text[j].t = "url" } }

RECURSIVE RunsOf(_)
RunsOf(items) == IF items = <<>> THEN <<>> ELSE << Head(items).run >> \o RunsOf(Tail(items))

\* json_object_pattern: \{[^{}]*"id"\s*:\s*"(hex64)"[^{}]*"kind"\s*:\s*\d+[^{}]*\}
IsEventObject(it) == it.t = "json" /\ it.o = "id_kind"

\* \{\s*"id"\s*:\s*"(hex64)"
IsIdFirst(it) == it.t = "json" /\ it.o \in {"id_kind", "id_only"}

\* "id"\s*:\s*"(hex64)"
IsIdField(it) == it.t = "json"

\* \b([0-9a-fA-F]{64})\b
IsWordHex(it) == it.t \in {"bare", "json", "url"} /\ Len(it.run) = 2

\* for x in reversed(matches): if x not in url_hex: return x
RECURSIVE LastNotIn(_, _)
LastNotIn(matches, excluded) ==
  IF matches = <<>> THEN None
  ELSE IF matches[Len(matches)] \notin excluded THEN matches[Len(matches)]
  ELSE LastNotIn(SubSeq(matches, 1, Len(matches) - 1), excluded)

\* for x in matches: if x not in url_hex: return x
RECURSIVE FirstNotIn(_, _)
FirstNotIn(matches, excluded) ==
  IF matches = <<>> THEN None
  ELSE IF Head(matches) \notin excluded THEN Head(matches)
  ELSE FirstNotIn(Tail(matches), excluded)

\* output.split('\n')
RECURSIVE SplitLines(_, _)
SplitLines(text, cur) ==
  IF text = <<>> THEN << cur >>
  ELSE IF Head(text).t = "nl" THEN << cur >> \o SplitLines(Tail(text), <<>>)
  ELSE SplitLines(Tail(text), Append(cur, Head(text)))

\* the group of Successfully published[^\n]*\n[^\n]*([0-9a-fA-F]{64}) at its
\* first match: the last 64 hexadecimal characters of the line that follows
\* the first success line followed by a line holding 64 of them
RECURSIVE SuccessGroup(_)
SuccessGroup(lines) ==
  IF Len(lines) < 2 THEN None
  ELSE LET hasPhrase == \E i \in 1..Len(lines[1]) : lines[1][i].t = "success"
           runs == SelectSeq(RunsOf(lines[2]), LAMBDA r : Len(r) >= 2)
           last == runs[Len(runs)]
       IN IF hasPhrase /\ runs # <<>>
          THEN SubSeq(last, Len(last) - 1, Len(last))
          ELSE SuccessGroup(Tail(lines))

\* for line in reversed(lines[-30:]): skip lines with a URL; the first
\* word-delimited 64-hex of the line that is not in url_hex
RECURSIVE ScanLines(_, _)
ScanLines(lines, excluded) ==
  IF lines = <<>> THEN None
  ELSE LET line == lines[Len(lines)]
           rest == SubSeq(lines, 1, Len(lines) - 1)
           hasUrl == \E i \in 1..Len(line) : line[i].t = "url"
           found == FirstNotIn(RunsOf(SelectSeq(line, IsWordHex)), excluded)
       IN IF ~hasUrl /\ found # None THEN found ELSE ScanLines(rest, excluded)

extract_event_id(output) ==
  LET url_hex == UrlHex(output)
      json_matches == RunsOf(SelectSeq(output, IsEventObject))
      by_object == IF json_matches # <<>> /\ json_matches[Len(json_matches)] \notin url_hex
                   THEN json_matches[Len(json_matches)] ELSE None
      by_id_first == LastNotIn(RunsOf(SelectSeq(output, IsIdFirst)), url_hex)
      by_id_field == LastNotIn(RunsOf(SelectSeq(output, IsIdField)), url_hex)
      group == SuccessGroup(SplitLines(output, <<>>))
      by_success == IF group # None /\ group \notin url_hex THEN group ELSE None
      by_lines == ScanLines(SplitLines(output, <<>>), url_hex)
      by_all == LastNotIn(RunsOf(SelectSeq(output, IsWordHex)), url_hex)
  IN IF by_object # None THEN by_object
     ELSE IF by_id_first # None THEN by_id_first
     ELSE IF by_id_field # None THEN by_id_field
     ELSE IF by_success # None THEN by_success
     ELSE IF by_lines # None THEN by_lines
     ELSE by_all

\* extract_event_id is called on a text
CallExtract ==
  /\ pure.fn = "none"
  /\ \E text \in Texts :
       pure' = [fn |-> "extract_event_id", input |-> text, output |-> extract_event_id(text)]
  /\ UNCHANGED << reply, nonAuxVars >>

NextExtract == CallExtract

SpecExtract == Init /\ [][NextExtract]_vars

\* run r occurs in run u as a contiguous part
IsPartOf(r, u) == \E k \in 1..(Len(u) - Len(r) + 1) : SubSeq(u, k, k + Len(r) - 1) = r

InSomeUrl(r, text) == \E i \in 1..Len(text) : text[i].t = "url" /\ IsPartOf(r, text[i].run)

\* C12 (as claimed): the token returned is not part of any URL of the text,
\* and None is returned when every 64-hex token of the text is inside a URL.
C12_NeverFromUrl ==
  pure.fn = "extract_event_id" =>
    /\ pure.output # None => ~InSomeUrl(pure.output, pure.input)
    /\ (\A i \in 1..Len(pure.input) : pure.input[i].t \in {"url", "success", "nl"})
         => pure.output = None

\* the objects that hold both an id and a kind field
HasIdAndKind(it) == it.t = "json" /\ it.o \in {"id_kind", "kind_id"}

\* C13 (as claimed): when the text holds objects with both an id and a kind
\* field and the id of the last of them is not inside a URL, that id is returned.
C13_LastRecordWins ==
  pure.fn = "extract_event_id" =>
    LET ids == RunsOf(SelectSeq(pure.input, HasIdAndKind)) IN
    (ids # <<>> /\ ~InSomeUrl(ids[Len(ids)], pure.input)) => pure.output = ids[Len(ids)]

\* ------------------------------------------------------------------
\* sanitize_subprocess_output.  A text is a sequence of characters; the
\* control characters are written by name ("ESC", "BEL", "CR", "LF", "TAB",
\* "BS", "DEL", "NUL", "FF", "VT"), "BSL" is the backslash and "SP" the space.

MaxLen == 4

\* the characters the bounded inputs are made of
SanChars == { "ESC", "[", "3", "m", "]", "BEL", "BSL", "P", "CR", "LF", "DEL", "BS", "TAB" }

SanTexts == UNION { [1..k -> SanChars] : k \in 0..MaxLen }

\* "\x1b[31mRED\x1b[0m\r\nDONE"
Example ==
  << "ESC", "[", "3", "1", "m", "R", "E", "D", "ESC", "[", "0", "m", "CR", "LF", "D", "O", "N", "E" >>

CsiParam == { "0", "1", "3", ";", "?" }

CsiFinal == { "m", "R", "E", "D", "O", "N", "P", "@", "_", "!" }

esc_single_chars ==
  { "D", "d", "E", "e", "H", "h", "M", "N", "O", "P", "S", "T", "U", "V", "X", "Z",
    "7", "8", "=", "<", ">" }

At(text, i) == IF i >= 1 /\ i <= Len(text) THEN text[i] ELSE "END"

\* the number of consecutive characters from position i on that are in (in =
\* TRUE) or not in (in = FALSE) the class
RECURSIVE RunLen(_, _, _, _)
RunLen(text, i, class, in) ==
  IF i <= Len(text) /\ ((text[i] \in class) = in)
  THEN 1 + RunLen(text, i + 1, class, in) ELSE 0

\* the length of the match of a pattern that starts at position i, 0 when
\* there is none
MatchLen(pat, text, i) ==
  IF At(text, i) # "ESC" THEN 0
  ELSE CASE pat = "CSI" ->
              LET n == RunLen(text, i + 2, CsiParam, TRUE) IN
              IF At(text, i + 1) = "[" /\ At(text, i + 2 + n) \in CsiFinal THEN n + 3 ELSE 0
         [] pat = "OSC" ->
              LET n == RunLen(text, i + 2, {"BEL", "ESC"}, FALSE) IN
              IF At(text, i + 1) # "]" THEN 0
              ELSE IF At(text, i + 2 + n) = "BEL" THEN n + 3
              ELSE IF At(text, i + 2 + n) = "ESC" /\ At(text, i + 3 + n) = "BSL" THEN n + 4
              ELSE 0
         [] pat \in {"P", "^", "_"} ->
              LET n == RunLen(text, i + 2, {"ESC"}, FALSE) IN
              IF /\ At(text, i + 1) = pat
                 /\ At(text, i + 2 + n) = "ESC"
                 /\ At(text, i + 3 + n) = "BSL"
              THEN n + 4 ELSE 0
         [] pat = "single" -> IF At(text, i + 1) \in esc_single_chars THEN 2 ELSE 0
         [] pat = "keypad" -> IF At(text, i + 1) \in {">", "="} THEN 2 ELSE 0

\* re.sub(pattern, '', text): the leftmost non-overlapping matches are removed
RECURSIVE ReSubFrom(_, _, _)
ReSubFrom(pat, text, i) ==
  IF i > Len(text) THEN <<>>
  ELSE LET n == MatchLen(pat, text, i) IN
       IF n > 0 THEN ReSubFrom(pat, text, i + n)
       ELSE << text[i] >> \o ReSubFrom(pat, text, i + 1)

ReSub(pat, text) == ReSubFrom(pat, text, 1)

\* lines 291-323, in their order
RemoveSequences(text) ==
  LET csi == ReSub("CSI", ReSub("CSI", ReSub("CSI", text)))
      osc == ReSub("OSC", ReSub("OSC", csi))
      dcs == ReSub("P", ReSub("P", osc))
      pm == ReSub("^", ReSub("^", dcs))
      apc == ReSub("_", ReSub("_", pm))
      single == ReSub("single", ReSub("single", ReSub("single", apc)))
  IN ReSub("keypad", ReSub("keypad", single))

\* text.replace('\r\n', '\n') and then text.replace('\r', '\n')
RECURSIVE ReplaceCR(_)
ReplaceCR(text) ==
  IF text = <<>> THEN <<>>
  ELSE IF Head(text) = "CR" /\ At(text, 2) = "LF" THEN << "LF" >> \o ReplaceCR(Tail(Tail(text)))
  ELSE IF Head(text) = "CR" THEN << "LF" >> \o ReplaceCR(Tail(text))
  ELSE << Head(text) >> \o ReplaceCR(Tail(text))

\* (mutant) DEL is not in the list of removed characters
control_chars_NoDel == { "NUL", "BEL", "BS", "VT", "FF", "CR", "ESC" }

\* chr(i) for i in range(32) except 9 and 10, and chr(127)
control_chars == { "NUL", "BEL", "BS", "VT", "FF", "CR", "ESC", "DEL" }

Remove(text, chars) == SelectSeq(text, LAMBDA c : c \notin chars)

Replace(text, old, new) == [ i \in 1..Len(text) |-> IF text[i] = old THEN new ELSE text[i] ]

\* re.sub(r'.\x08', '', text): a character other than newline and the
\* backspace after it
RECURSIVE SubCharBackspace(_)
SubCharBackspace(text) ==
  IF text = <<>> THEN <<>>
  ELSE IF Head(text) # "LF" /\ At(text, 2) = "BS" THEN SubCharBackspace(Tail(Tail(text)))
  ELSE << Head(text) >> \o SubCharBackspace(Tail(text))

\* while '\x08' in text: remove char + backspace, then the backspaces left
RECURSIVE RemoveBackspaces(_)
RemoveBackspaces(text) ==
  IF \E i \in 1..Len(text) : text[i] = "BS"
  THEN RemoveBackspaces(Remove(SubCharBackspace(text), {"BS"}))
  ELSE text

\* re.sub(r'\n{3,}', '\n\n', text)
RECURSIVE CollapseNewlines(_)
CollapseNewlines(text) ==
  IF text = <<>> THEN <<>>
  ELSE LET n == RunLen(text, 1, {"LF"}, TRUE) IN
       IF n >= 3 THEN << "LF", "LF" >> \o CollapseNewlines(SubSeq(text, n + 1, Len(text)))
       ELSE << Head(text) >> \o CollapseNewlines(Tail(text))

\* line.rstrip() on every line of text.split('\n'), joined again
RECURSIVE RStripLines(_)
RStripLines(text) ==
  IF text = <<>> THEN <<>>
  ELSE LET n == RunLen(text, 1, {"SP", "TAB"}, TRUE) IN
       IF n > 0 /\ At(text, n + 1) \in {"LF", "END"}
       THEN RStripLines(SubSeq(text, n + 1, Len(text)))
       ELSE << Head(text) >> \o RStripLines(Tail(text))

sanitize_subprocess_output(text) ==
  IF text = <<>> THEN <<>>
  ELSE LET noSeq == RemoveSequences(text)
           noCR == ReplaceCR(noSeq)
           noCtl == Remove(Remove(noCR, control_chars), {"NUL"})
           noBS == RemoveBackspaces(noCtl)
           noFF == Replace(Replace(noBS, "FF", "LF"), "VT", "LF")
           noEsc == Remove(noFF, {"ESC"})
       IN RStripLines(CollapseNewlines(noEsc))

\* sanitize_subprocess_output is called on a text
CallSanitize ==
  /\ pure.fn = "none"
  /\ \E text \in SanTexts \cup {Example} :
       pure' = [fn |-> "sanitize_subprocess_output", input |-> text,
                output |-> sanitize_subprocess_output(text)]
  /\ UNCHANGED << reply, nonAuxVars >>

NextSanitize == CallSanitize

SpecSanitize == Init /\ [][NextSanitize]_vars

\* the characters the output must not hold: ESC, CR, DEL and the C0 control
\* characters other than tab and newline
Forbidden == { "ESC", "CR", "DEL", "NUL", "BEL", "BS", "VT", "FF" }

Printable == { "[", "3", "m", "]", "BSL", "P" }

\* C14: the output holds no ESC, CR, DEL or C0 control character other than
\* tab and newline; a CR LF or a lone CR between printable characters comes
\* out as one LF; the example text comes out as RED LF DONE.
C14_NoControlCharacters ==
  pure.fn = "sanitize_subprocess_output" =>
    LET in == pure.input
        out == pure.output
    IN /\ \A i \in 1..Len(out) : out[i] \notin Forbidden
       /\ \A k \in 1..Len(in) : \A n \in 1..2 :
            ( /\ k + n - 1 <= Len(in)
              /\ SubSeq(in, k, k + n - 1) = SubSeq(<< "CR", "LF" >>, 1, n)
              /\ \A j \in (1..Len(in)) \ (k..(k + n - 1)) : in[j] \in Printable )
            => out = SubSeq(in, 1, k - 1) \o << "LF" >> \o SubSeq(in, k + n, Len(in))
       /\ in = Example => out = << "R", "E", "D", "LF", "D", "O", "N", "E" >>

C14_Witness ==
  /\ pure.fn = "sanitize_subprocess_output"
  /\ pure.input = Example
  /\ pure.output = << "R", "E", "D", "LF", "D", "O", "N", "E" >>

\* ------------------------------------------------------------------
\* build_command and should_disable_cookies.  A URL is given by the parts
\* urlparse splits it into: scheme://user@host:port/..., the host a sequence
\* of labels; a local file path has no scheme.  A pattern of the disable list
\* is a sequence of labels too, "" the empty label (".facebook.com" is
\* << "", "facebook", "com" >> and the empty string is <<>>).  Paths are
\* those of a POSIX host, which convert_path_for_cygwin leaves as they are.

MaxUrls == 2

FB == << "facebook", "com" >>

Hosts == { FB, << "www" >> \o FB, << "example", "org" >> }

FilePath == [scheme |-> "", user |-> "", host |-> << "tmp", "a.jpg" >>, port |-> ""]

UrlItems ==
  { [scheme |-> "https", user |-> u, host |-> h, port |-> p] :
      u \in {"", "u"}, h \in Hosts, p \in {"", "443"} } \cup { FilePath }

\* a handler builds a command for at least one URL or file
UrlLists == UNION { [1..k -> UrlItems] : k \in 1..MaxUrls }

DisableLists == { <<>>, << FB >>, << <<>> >>, << << "" >> \o FB >> }

CookiesFiles == { "", "cookies.txt" }

IsHttp(url) == url.scheme \in {"http", "https"}

\* parsed.netloc.lower() with the part from the first ':' on removed: the
\* user information stays in front of the host
DomainOf(url) == [user |-> url.user, labels |-> url.host]

\* pattern.lower().strip().strip('.')
RECURSIVE StripDots(_)
StripDots(pattern) ==
  IF pattern # <<>> /\ Head(pattern) = "" THEN StripDots(Tail(pattern))
  ELSE IF pattern # <<>> /\ pattern[Len(pattern)] = ""
       THEN StripDots(SubSeq(pattern, 1, Len(pattern) - 1))
  ELSE pattern

IsLabelSuffix(labels, pattern) ==
  /\ Len(labels) > Len(pattern)
  /\ pattern # <<>>
  /\ SubSeq(labels, Len(labels) - Len(pattern) + 1, Len(labels)) = pattern

\* domain == pattern_lower or domain.endswith('.' + pattern_lower)
DomainMatches(domain, pattern) ==
  \/ domain.user = "" /\ domain.labels = pattern
  \/ IsLabelSuffix(domain.labels, pattern)

should_disable_cookies(urls, disable_cookies_for_sites) ==
  LET patterns == SelectSeq(disable_cookies_for_sites, LAMBDA q : q # <<>>) IN
  IF urls = <<>> \/ disable_cookies_for_sites = <<>> \/ patterns = <<>> THEN FALSE
  ELSE \E i \in 1..Len(urls) : \E j \in 1..Len(patterns) :
         IsHttp(urls[i]) /\ DomainMatches(DomainOf(urls[i]), StripDots(patterns[j]))

\* an element of argv is a string, written as a sequence of its parts
Arg(word) == << word >>

UrlArg(url) == << url.scheme, url.user >> \o url.host \o << url.port >>

UrlArgs(urls) == [ i \in 1..Len(urls) |-> UrlArg(urls[i]) ]

build_command(urls, extra_text, use_firefox, cookies_file, nsfw, disable_cookies_for_sites) ==
  LET disable_cookies == should_disable_cookies(urls, disable_cookies_for_sites)
      cookies == IF cookies_file # "" /\ ~disable_cookies
                 THEN << Arg("--cookies"), Arg(cookies_file) >>
                 ELSE IF use_firefox /\ ~disable_cookies THEN << Arg("--firefox") >>
                 ELSE <<>>
      nsfwFlag == IF nsfw THEN << Arg("--nsfw") >> ELSE <<>>
      nocomment == IF extra_text # <<>> /\ Strip(extra_text) # <<>>
                   THEN << Arg("--nocomment") >> ELSE <<>>
      extra == IF extra_text # <<>> THEN << extra_text >> ELSE <<>>
  IN << Arg("bash_path"), Arg("script_path"), Arg("-p"), Arg("profile_name") >>
       \o cookies \o nsfwFlag \o nocomment \o UrlArgs(urls) \o extra

\* build_command is called by a handler
CallBuild ==
  /\ pure.fn = "none"
  /\ \E urls \in UrlLists, extra_text \in Captions, use_firefox \in BOOLEAN,
        cookies_file \in CookiesFiles, nsfw \in BOOLEAN, sites \in DisableLists :
       pure' = [fn |-> "build_command",
                input |-> [urls |-> urls, extra_text |-> extra_text,
                           use_firefox |-> use_firefox, cookies_file |-> cookies_file,
                           nsfw |-> nsfw, disable_cookies_for_sites |-> sites],
                output |-> build_command(urls, extra_text, use_firefox, cookies_file,
                                         nsfw, sites)]
  /\ UNCHANGED << reply, nonAuxVars >>

NextBuild == CallBuild

SpecBuild == Init /\ [][NextBuild]_vars

HasArg(cmd, word) == \E i \in 1..Len(cmd) : cmd[i] = Arg(word)

\* the host of the URL is a domain of the list: equal to a pattern, or ending
\* with it after a dot
UrlMatchesList(url, sites) ==
  /\ IsHttp(url)
  /\ \E j \in 1..Len(sites) :
       /\ StripDots(sites[j]) # <<>>
       /\ \/ url.host = StripDots(sites[j])
          \/ IsLabelSuffix(url.host, StripDots(sites[j]))

AnyUrlMatches(in) ==
  \E i \in 1..Len(in.urls) : UrlMatchesList(in.urls[i], in.disable_cookies_for_sites)

\* C15 (as claimed): --cookies and --firefox never both appear; --cookies
\* with the file path is used whenever a cookies file is configured and cookies
\* are not disabled; --firefox only without a cookies file, with Firefox use
\* enabled and cookies not disabled; neither appears when a URL of the request
\* matches the disable list.
C15_CookieFlags ==
  pure.fn = "build_command" =>
    LET in == pure.input
        cmd == pure.output
        disabled == AnyUrlMatches(in)
    IN /\ ~(HasArg(cmd, "--cookies") /\ HasArg(cmd, "--firefox"))
       /\ (in.cookies_file # "" /\ ~disabled) =>
            \E i \in 1..(Len(cmd) - 1) :
              cmd[i] = Arg("--cookies") /\ cmd[i + 1] = Arg(in.cookies_file)
       /\ HasArg(cmd, "--firefox") => (in.cookies_file = "" /\ in.use_firefox /\ ~disabled)
       /\ disabled => (~HasArg(cmd, "--cookies") /\ ~HasArg(cmd, "--firefox"))

\* the number of option arguments of an argv
OptionCount(cmd) ==
  Cardinality({ i \in 1..Len(cmd) :
    cmd[i] \in { Arg("--cookies"), Arg("cookies.txt"), Arg("--firefox"), Arg("--nsfw"),
                 Arg("--nocomment") } })

HasTrailingText(in, cmd) == Len(cmd) = 4 + OptionCount(cmd) + Len(in.urls) + 1

\* C16 (as claimed): --nocomment is in argv if and only if the trailing
\* free-text argument is, that is, if and only if the free text is not empty.
C16_NoCommentIffText ==
  pure.fn = "build_command" =>
    /\ HasArg(pure.output, "--nocomment") <=> HasTrailingText(pure.input, pure.output)
    /\ HasTrailingText(pure.input, pure.output) <=> (pure.input.extra_text # <<>>)

\* ------------------------------------------------- aggregator, timers
\* the timer tasks of a key that have not been cancelled
LiveTasks(tasks, k) == { t \in tasks : t.key = k /\ ~t.cancelled }

Collecting(g) == g \in DOMAIN pending_media_groups /\ ~pending_media_groups[g].processed

\* C18: a collecting batch has exactly one timer that can seal it, and that
\* timer has run exactly as long as the time since the most recent arrival of
\* its group id: it is due, and seals the batch, only when a full window
\* MEDIA_GROUP_TIMEOUT has passed since that arrival.
C18_SealsAfterQuietWindow ==
  \A g \in GroupIds :
    Collecting(g) =>
      /\ Cardinality(LiveTasks(group_tasks, g)) = 1
      /\ \A t \in LiveTasks(group_tasks, g) :
           t.remaining = MEDIA_GROUP_TIMEOUT - sinceLast[g]

C18_Witness ==
  \E g \in GroupIds :
    /\ Collecting(g)
    /\ Len(pending_media_groups[g].messages) >= 2
    /\ ~late[g]
    /\ sinceLast[g] = MEDIA_GROUP_TIMEOUT
    /\ \E t \in LiveTasks(group_tasks, g) : t.remaining = 0

\* a timer task of the key ends in this step while a timer scheduled after it
\* is still asleep
SupersededEnds(tasks, tasksNext) ==
  \E t \in tasks \ tasksNext :
    /\ t.remaining = 0
    /\ \E younger \in tasks \cap tasksNext : younger.key = t.key /\ younger.remaining > 0

C20_CaptionedBatchViaSplitGroup ==
  \A i \in 1..Len(submitted) :
    submitted[i].kind = "group" =>
      get_split_group_key(submitted[i].messages[1].chat, TextOf(submitted[i].messages)) = NoKey

\* ---------------------------------------------- aggregator, split groups
IsBlank(caption) == Strip(caption) = <<>>

\* The albums of this specification carry no caption, a whitespace-only
\* caption or the caption "a".
BlankCaptions == { <<>>, <<" ">>, <<"a">> }

NextBlank ==
  \/ \E g \in GroupIds, caption \in BlankCaptions :
       \E chat \in ChatsOf(g) : HandleGroupMessage(g, chat, caption)
  \/ Tick
  \/ \E t \in group_tasks : GroupTimerFires(t)
  \/ \E t \in split_tasks : SplitTimerFires(t)
  \/ \E u \in inflight : FinishProcessing(u)

SpecBlank == Init /\ [][NextBlank]_vars

\* C21: a batch whose caption is empty or whitespace-only is never held in
\* pending_split_groups and never part of a combined unit; once sealed it has
\* been submitted as a unit of its own.
C21_BlankCaptionSkipsSplit ==
  /\ \A k \in DOMAIN pending_split_groups :
       \A i \in 1..Len(pending_split_groups[k].groups) :
         ~IsBlank(TextOf(pending_split_groups[k].groups[i].messages))
  /\ \A i \in 1..Len(submitted) :
       submitted[i].kind = "split" =>
         \A j \in 1..Len(submitted[i].members) : ~IsBlank(TextOf(submitted[i].members[j]))
  /\ \A g \in GroupIds : \A j \in 1..Len(sealedUnits[g]) :
       IsBlank(TextOf(sealedUnits[g][j])) =>
         \E i \in 1..Len(submitted) :
           submitted[i].kind = "group" /\ submitted[i].messages = sealedUnits[g][j]

\* two batches of one chat, one without caption and one with a whitespace-only
\* caption, have sealed in the same second and are both being processed
C21_Witness ==
  \E u, v \in inflight :
    /\ u.kind = "group" /\ v.kind = "group"
    /\ u.gid # v.gid
    /\ u.messages[1].chat = v.messages[1].chat
    /\ TextOf(u.messages) = <<>>
    /\ TextOf(v.messages) = <<" ">>
    /\ pending_split_groups = << >>
    /\ \A g \in GroupIds : sinceLast[g] = MEDIA_GROUP_TIMEOUT /\ Len(arrivals[g]) = 1

\* the event loop runs: the clock advances, due timer tasks are run, and a
\* call of process_media_group that has started returns
\* The albums of this specification carry no caption or the caption "a".
LiveCaptions == { <<>>, <<"a">> }

NextLive ==
  \/ \E g \in GroupIds, caption \in LiveCaptions :
       \E chat \in ChatsOf(g) : HandleGroupMessage(g, chat, caption)
  \/ Tick
  \/ \E t \in group_tasks : GroupTimerFires(t)
  \/ \E t \in split_tasks : SplitTimerFires(t)
  \/ \E u \in inflight : FinishProcessing(u)

LiveAgg ==
  /\ Init /\ [][NextLive]_vars
  /\ WF_vars(Tick)
  /\ WF_vars(\E t \in group_tasks : GroupTimerFires(t))
  /\ WF_vars(\E t \in split_tasks : SplitTimerFires(t))
  /\ WF_vars(\E u \in inflight : FinishProcessing(u))

SplitKeys == { << chat, Strip(caption) >> : chat \in Chats, caption \in { c \in Captions : ~IsBlank(c) } }

\* the submitted units that are the combination of these groups
UnitsOf(groups) ==
  { i \in 1..Len(submitted) :
      submitted[i].kind = "split" /\ submitted[i].messages = CombineMessages(groups) }

IsOpen(k) == k \in DOMAIN pending_split_groups /\ ~pending_split_groups[k].processed

\* C23: an open split group has exactly one merge timer that can seal it.  A
\* batch that joins is put after the members already there, the merge timer
\* is replaced by one with the full SPLIT_GROUP_TIMEOUT ahead, and nothing is
\* submitted in that step.  The merge timer of a group loses one second per
\* second in which no batch joins, and the group is sealed only by that timer
\* at 0: after a full window without a new member.
C23_JoinResetsMergeWindow ==
  /\ [](\A k \in DOMAIN pending_split_groups :
          IsOpen(k) => Cardinality(LiveTasks(split_tasks, k)) = 1)
  /\ [][\A k \in DOMAIN pending_split_groups :
          LET groups == pending_split_groups[k].groups
              joined == /\ IsOpen(k)
                        /\ k \in DOMAIN pending_split_groups'
                        /\ pending_split_groups'[k].groups # groups
              sealed == /\ IsOpen(k)
                        /\ k \in DOMAIN pending_split_groups'
                        /\ pending_split_groups'[k].processed
          IN
          /\ joined =>
               /\ Len(pending_split_groups'[k].groups) = Len(groups) + 1
               /\ SubSeq(pending_split_groups'[k].groups, 1, Len(groups)) = groups
               /\ ~pending_split_groups'[k].processed
               /\ LiveTasks(split_tasks', k) =
                    { [key |-> k, remaining |-> SPLIT_GROUP_TIMEOUT, cancelled |-> FALSE] }
               /\ UNCHANGED << submitted, inflight >>
          /\ sealed =>
               /\ \A t \in LiveTasks(split_tasks, k) : t.remaining = 0
               /\ LiveTasks(split_tasks', k) = {}
               /\ pending_split_groups'[k].groups = groups
          /\ (IsOpen(k) /\ ~joined /\ ~sealed) =>
               \A t \in LiveTasks(split_tasks, k) :
                 \/ t \in split_tasks'
                 \/ t.remaining > 0 /\ [t EXCEPT !.remaining = @ - 1] \in split_tasks'
       ]_vars

\* a second batch has just joined a split group: the old merge timer is
\* cancelled and has not woken yet, the new one has the full window ahead
C23_Witness ==
  \E k \in DOMAIN pending_split_groups :
    /\ IsOpen(k)
    /\ Len(pending_split_groups[k].groups) = 2
    /\ \E t \in split_tasks : t.key = k /\ t.cancelled
    /\ LiveTasks(split_tasks, k) =
         { [key |-> k, remaining |-> SPLIT_GROUP_TIMEOUT, cancelled |-> FALSE] }
    /\ submitted = <<>>

\* the event loop runs every step of the job that can be taken
LiveReply == SpecReply /\ WF_vars(NextReply)

\* C24: for a unit none of whose attachments was downloaded, no message is
\* sent to the user and no command is built or run, and the unit's registry
\* entry is removed all the same.
C24_NoMediaIsDropped ==
  /\ [](reply.media = "none" =>
          /\ reply.shown = <<>>
          /\ reply.attempts = 0 /\ reply.ended = "no_call"
          /\ reply.outcome = "none"
          /\ reply.pc = "done")
  /\ (reply.media = "none") ~> (reply.media = "none" /\ reply.entry = "removed")

C24_Witness ==
  /\ reply.media = "none"
  /\ reply.entry = "removed"
  /\ reply.shown = <<>>
  /\ reply.outcome = "none"

\* ------------------------------------------- escalation after a timeout
\* the positions of execute_script inside kill_process_tree and the fallback
KillStages == {"kill_start", "kill_wait1", "kill_wait2", "kill_np_wait",
               "fallback_wait", "fallback_kill_wait"}

\* C25: on the timeout path the first signal sent to the process is SIGINT;
\* while the supervisor waits out the grace period (15 s) nothing but that
\* SIGINT has been sent and read_task is still collecting; kill_process_tree
\* is entered only from the end of the grace period, with the process still
\* running and with every chunk the readers collected kept.
C25_InterruptThenGrace ==
  /\ [](interrupt_reason = "timeout" =>
          /\ signals # <<>> => signals[1] = << "SIGINT", "timeout" >>
          /\ pc = "grace" =>
               /\ \A i \in DOMAIN signals : signals[i] = << "SIGINT", "timeout" >>
               /\ read_task = "running"
               /\ GraceTimeout(interrupt_reason) = 15)
  /\ [][(interrupt_reason' = "timeout" /\ pc' \in KillStages /\ pc \notin KillStages) =>
          /\ pc = "grace"
          /\ parent = "running"
          /\ ~ReadReady
          /\ bytes' = chunks]_vars

C25_Witness ==
  /\ pc = "kill_start"
  /\ interrupt_reason = "timeout"
  /\ signals = << << "SIGINT", "timeout" >> >>
  /\ parent = "running"
  /\ read_task = "cancelled"
  /\ chunks["stdout"] # <<>>
  /\ bytes = chunks

\* the signals kill_process_tree itself sends, by the step that sends them
TreeSteps == {"kill_parent", "tree", "children", "group"}

\* C26 (as claimed): in kill_process_tree on a process that has not exited,
\* the signal sent to the enumerated tree (parent and descendants) is a
\* terminate signal, stronger than the SIGINT sent before, and SIGKILL is sent
\* only after that terminate signal and the wait that follows it.
C26_TerminateThenKill ==
  /\ pc = "kill_wait2" => signals[Len(signals)][1] = "SIGTERM"
  /\ \A i \in DOMAIN signals :
       (signals[i][1] = "SIGKILL" /\ signals[i][2] \in TreeSteps) =>
         \E j \in 1..(i - 1) :
           signals[j][1] = "SIGTERM" /\ signals[j][2] \in TreeSteps

C28_ShutdownEscalatesLikeTimeout ==
  /\ \A i \in DOMAIN signals :
       signals[i][1] \in {"SIGTERM", "SIGKILL"} =>
         \E j \in 1..(i - 1) : signals[j][1] = "SIGINT"
  /\ (pc = "grace" /\ interrupt_reason = "interrupt") =>
       /\ \A i \in DOMAIN signals : signals[i][1] = "SIGINT"
       /\ read_task = "running"
       /\ GraceTimeout(interrupt_reason) = 2

\* ------------------------------------------------- reason in stderr
\* the message execute_script puts in front of stderr
HasReason(r) == r.reason \in {"timeout", "interrupt"}

\* C29 (as claimed): a dictionary returned without an exception carries the
\* reason (timed out, interrupted) in front of stderr exactly when the timeout
\* elapsed or the call was interrupted; when the command exited without any
\* signal having been sent to it and the call was not interrupted, stderr is
\* what the command wrote to stderr and nothing else, whatever the exit code.
C29_ReasonIffTimedOutOrInterrupted ==
  (pc = "returned" /\ fault = "none") =>
    /\ HasReason(result) <=> (timeout_task = "done" \/ interrupt_reason = "interrupt")
    /\ (parent = "exited" /\ signals = <<>> /\ interrupt_reason # "interrupt") =>
         (~HasReason(result) /\ result.stderr = written["stderr"])

\* ------------------------------------------------------------------
\* The texts of the dictionary execute_script returns.  The bytes of a
\* stream are a sequence of characters as above, "BAD" a byte that is not
\* valid UTF-8; a fixed message is one element of the sequence.

\* the characters the bounded streams and paths are made of
ResChars == { "ESC", "[", "m", "CR", "LF", "P" }

ResTexts == UNION { [1..k -> ResChars] : k \in 0..MaxLen }

\* f"Script execution timed out after {timeout} seconds"
TimeoutMsg == "Script execution timed out after N seconds"

\* "Script execution was interrupted (Ctrl+C)"
InterruptMsg == "Script execution was interrupted (Ctrl+C)"

StdoutBytes == { <<>>, << "P" >>, << "ESC", "[", "m" >>, << "BAD" >> }

StderrBytes == ResTexts \cup { << TimeoutMsg >> }

\* an absolute path that names no file
ExePaths == { << "/" >> \o t : t \in ResTexts }

\* str(e) of the exceptions raised while the command is supervised
ExceptionTexts == { << kind >> : kind \in ExceptionKinds }

\* bytes.decode('utf-8', errors='replace')
Decode(raw) ==
  [ i \in 1..Len(raw) |-> IF raw[i] = "BAD" THEN "U+FFFD" ELSE raw[i] ]

\* error_msg.lower() in stderr.lower()
Contains(text, msg) == \E i \in 1..Len(text) : text[i] = msg

\* sanitize_subprocess_output(stdout) if stdout else ''
Resanitize(text) == IF text # <<>> THEN sanitize_subprocess_output(text) ELSE <<>>

\* the reason goes in front of stderr, unless stderr holds it already, and the
\* partial stdout behind it
WithReason(error_msg, stdout, stderr) ==
  LET withMsg == IF stderr # <<>>
                 THEN IF ~Contains(stderr, error_msg)
                      THEN << error_msg, "LF", "LF", "--- Partial output ---", "LF" >> \o stderr
                      ELSE stderr
                 ELSE << error_msg >>
  IN [stdout |-> stdout,
      stderr |-> IF stdout # <<>>
                 THEN withMsg \o << "LF", "LF", "--- Partial stdout ---", "LF" >> \o stdout
                 ELSE withMsg]

\* the block 'if timed_out:' : the message is chosen by the reason, both texts
\* are sanitized once more and the returned stderr is put together
TimedOutTexts(reason_type, stdout, stderr) ==
  WithReason(IF reason_type = "timeout" THEN TimeoutMsg ELSE InterruptMsg,
             Resanitize(stdout), Resanitize(stderr))

\* the dictionary of the timeout block or the normal one, from the decoded and
\* sanitized streams
CapturedTexts(path, stdout, stderr) ==
  IF path \in {"timeout", "interrupt"}
  THEN TimedOutTexts(path, stdout, stderr)
  ELSE [stdout |-> stdout, stderr |-> stderr]

\* execute_script returns after the streams of the command were captured: they
\* are decoded and sanitized, then the dictionary is built
ReturnCaptured ==
  /\ pure.fn = "none"
  /\ \E path \in {"clean", "timeout", "interrupt"}, o \in StdoutBytes, e \in StderrBytes :
       \E stdout \in { sanitize_subprocess_output(Decode(o)) },
          stderr \in { sanitize_subprocess_output(Decode(e)) } :
         pure' = [fn |-> "execute_script",
                  input |-> [path |-> path, stdout |-> o, stderr |-> e],
                  output |-> CapturedTexts(path, stdout, stderr)]
  /\ UNCHANGED << reply, nonAuxVars >>

\* execute_script returns because cmd[0] is an absolute path that does not exist
ReturnNotFound ==
  /\ pure.fn = "none"
  /\ \E executable \in ExePaths :
       pure' = [fn |-> "execute_script",
                input |-> [path |-> "not_found", stdout |-> <<>>, stderr |-> executable],
                output |-> [stdout |-> <<>>,
                            stderr |-> << "Executable not found: " >> \o executable]]
  /\ UNCHANGED << reply, nonAuxVars >>

\* execute_script returns from 'except Exception as e'
ReturnException ==
  /\ pure.fn = "none"
  /\ \E e \in ExceptionTexts :
       pure' = [fn |-> "execute_script",
                input |-> [path |-> "exception", stdout |-> <<>>, stderr |-> e],
                output |-> [stdout |-> <<>>, stderr |-> e]]
  /\ UNCHANGED << reply, nonAuxVars >>

NextResult == ReturnCaptured \/ ReturnNotFound \/ ReturnException

SpecResult == Init /\ [][NextResult]_vars

\* C30 (as claimed): on every return path the stdout and stderr of the
\* dictionary hold no escape or control character (ESC, CR, DEL, C0 other than
\* tab and newline), and on clean completion they are the sanitized streams.
C30_ResultTextsSanitized ==
  pure.fn = "execute_script" =>
    /\ \A i \in 1..Len(pure.output.stdout) : pure.output.stdout[i] \notin Forbidden
    /\ \A i \in 1..Len(pure.output.stderr) : pure.output.stderr[i] \notin Forbidden
    /\ pure.input.path = "clean" =>
         /\ pure.output.stdout = sanitize_subprocess_output(Decode(pure.input.stdout))
         /\ pure.output.stderr = sanitize_subprocess_output(Decode(pure.input.stderr))

\* ------------------------------------------------ sanitizer, blank lines
\* C31 (as claimed): the output of sanitize_subprocess_output holds no run of
\* three or more newlines, also when the blank lines of the input hold only
\* spaces or tabs.
C31_NoThreeNewlines ==
  pure.fn = "sanitize_subprocess_output" =>
    \A i \in 1..Len(pure.output) :
      ~(At(pure.output, i) = "LF" /\ At(pure.output, i + 1) = "LF"
          /\ At(pure.output, i + 2) = "LF")

\* ------------------------------------------- aggregator, end of a unit
\* C32: the step that ends the processing of one unit, by return or by an
\* exception, takes that unit out of the units in flight and removes its own
\* registry entry; every other entry of pending_media_groups and
\* pending_split_groups, every timer, and what has arrived and been submitted
\* stay as they are, and the group of the unit is free for a new batch.
C32_FailureIsContained ==
  [][\A u \in inflight :
       u \notin inflight' =>
         /\ inflight' = inflight \ {u}
         /\ \A g \in DOMAIN pending_media_groups :
              IF u.kind = "group" /\ g = u.gid
              THEN g \notin DOMAIN pending_media_groups'
              ELSE /\ g \in DOMAIN pending_media_groups'
                   /\ pending_media_groups'[g] = pending_media_groups[g]
         /\ \A k \in DOMAIN pending_split_groups :
              IF u.kind = "split" /\ k = u.key
              THEN k \notin DOMAIN pending_split_groups'
              ELSE /\ k \in DOMAIN pending_split_groups'
                   /\ pending_split_groups'[k] = pending_split_groups[k]
         /\ DOMAIN pending_media_groups' \subseteq DOMAIN pending_media_groups
         /\ DOMAIN pending_split_groups' \subseteq DOMAIN pending_split_groups
         /\ UNCHANGED << group_tasks, split_tasks, arrivals, nextEvent, submitted >>
    ]_vars

\* a unit without caption has ended while another batch is collecting and a
\* split group is open, both with their timers running
C32_Witness ==
  /\ \E i \in 1..Len(submitted) :
       /\ submitted[i].kind = "group"
       /\ submitted[i] \notin inflight
       /\ submitted[i].gid \notin DOMAIN pending_media_groups
  /\ \E g \in DOMAIN pending_media_groups :
       /\ ~pending_media_groups[g].processed
       /\ LiveTasks(group_tasks, g) # {}
  /\ \E k \in DOMAIN pending_split_groups :
       /\ IsOpen(k)
       /\ LiveTasks(split_tasks, k) # {}

C38_TimedOutResultIsFixed ==
  (pc = "returned" /\ interrupt_reason \in {"timeout", "interrupt"}) =>
    /\ result.returncode = -1
    /\ ~result.success
    /\ result.timeout
    /\ result = TimedOutResult(result.stdout, result.stderr, interrupt_reason)

C38_Witness ==
  /\ pc = "returned"
  /\ interrupt_reason = "interrupt"
  /\ signals = << << "SIGINT", "interrupt" >> >>
  /\ "alive_after_grace" \notin hist
  /\ exit_status = 0
  /\ result.returncode = -1
  /\ result.timeout
  /\ result.reason = "interrupt"

\* ------------------------------------------------- collected output
IsPrefixOf(a, b) == Len(a) <= Len(b) /\ SubSeq(b, 1, Len(a)) = a

\* C39: in a run that timed out or was interrupted the collected output only
\* grows: what the readers had collected at the timeout is a prefix of what is
\* joined at the end of the grace wait, every step of the post-kill read
\* extends the joined bytes at their end, and the dictionary returned holds
\* the bytes so collected.
C39_CollectedOutputOnlyGrows ==
  /\ [][\A s \in Streams :
          /\ (pc' # "idle" /\ pc # "idle") => IsPrefixOf(chunks[s], chunks'[s])
          /\ (interrupt_reason' # "none" /\ pc = "grace" /\ pc' \notin {"grace", "exited"}) =>
               /\ IsPrefixOf(chunks[s], bytes'[s])
               /\ bytes'[s] = chunks'[s]
          /\ (interrupt_reason # "none" /\ pc = "postread") =>
               /\ IsPrefixOf(bytes[s], bytes'[s])
               /\ IsPrefixOf(chunks[s], bytes'[s])
               /\ (pc' = "returned" => result'[s] = bytes'[s])]_vars
  /\ []((interrupt_reason # "none" /\ pc \in KillStages \cup {"postread"}) =>
          \A s \in Streams : IsPrefixOf(chunks[s], bytes[s]))

C39_Witness ==
  /\ pc = "returned"
  /\ interrupt_reason = "timeout"
  /\ chunks["stdout"] # << >>
  /\ Len(bytes["stdout"]) > Len(chunks["stdout"])
  /\ IsPrefixOf(chunks["stdout"], bytes["stdout"])
  /\ result.stdout = bytes["stdout"]

\* ------------------------------------------------- call without a timeout
\* C40: a call without a timeout that meets no exception starts no timer and
\* sends no signal (the only signals a command can then receive are those of
\* the shutdown handler of the service), and it has returned only if the
\* process has exited, was collected, and both streams were read to EOF: while
\* the command runs or a stream stays open the call stays in communicate().
C40_NoTimeoutWaitsForExit ==
  (~timeout_cfg /\ pc # "idle" /\ fault = "none") =>
    /\ timeout_task = "none"
    /\ ~timed_out
    /\ \A i \in DOMAIN signals : signals[i][2] = "sweep"
    /\ pc \in {"communicate", "returned", "exited"}
    /\ pc = "returned" =>
         /\ parent = "exited"
         /\ reaped
         /\ \A s \in Streams : rd_eof[s] /\ EOF(s)
         /\ signals = << >>
         /\ ~result.timeout
         /\ result.returncode = exit_status

C40_Witness ==
  /\ ~timeout_cfg
  /\ pc = "returned"
  /\ fault = "none"
  /\ parent = "exited"
  /\ child = "exited"
  /\ timeout_task = "none"
  /\ signals = << >>
  /\ written["stdout"] # << >>
  /\ result.stdout = written["stdout"]

\* ------------------------------------------------- events for a sealed batch
\* C35: an event that arrives for a media group whose entry is in
\* pending_media_groups with processed = true is discarded: the entry and
\* every other entry stay as they are, no batch is created, no timer is
\* cancelled or scheduled, and nothing is submitted.
C35_EventForProcessedGroupDiscarded ==
  [][\A g \in GroupIds :
       (/\ arrivals'[g] # arrivals[g]
        /\ g \in DOMAIN pending_media_groups
        /\ pending_media_groups[g].processed) =>
         UNCHANGED << pending_media_groups, group_tasks, pending_split_groups,
                      split_tasks, inflight, submitted >>]_vars

C35_Witness ==
  \E g \in DOMAIN pending_media_groups :
    LET entry == pending_media_groups[g]
        last == arrivals[g][Len(arrivals[g])] IN
    /\ entry.processed
    /\ \A i \in DOMAIN entry.messages : entry.messages[i].id < last.id
    /\ \A t \in group_tasks : t.key = g => t.cancelled

NextLater ==
  \/ \E g \in GroupIds, caption \in LaterCaptions :
       \E chat \in ChatsOf(g) : HandleGroupMessage(g, chat, caption)
  \/ Tick
  \/ \E t \in group_tasks : GroupTimerFires(t)
  \/ \E t \in split_tasks : SplitTimerFires(t)
  \/ \E u \in inflight : FinishProcessing(u)

SpecLater == Init /\ [][NextLater]_vars

\* C37: the caption of a batch is that of its first-arrived message only.  A
\* batch whose first message has no caption touches no split group when it
\* seals and is submitted at once, with all its messages and empty free text,
\* even when a later message carries a caption; a batch whose first message is
\* captioned is resolved under the key of that caption.
C37_CaptionOfFirstMessageOnly ==
  [][\A g \in DOMAIN pending_media_groups :
       LET messages == pending_media_groups[g].messages
           first == messages[1]
           key == get_split_group_key(first.chat, first.caption)
           u == [kind |-> "group", gid |-> g, key |-> NoKey,
                 messages |-> messages, members |-> <<>>] IN
       sealedUnits'[g] # sealedUnits[g] =>
         /\ \A i \in DOMAIN messages : first.id <= messages[i].id
         /\ first.caption = <<>> =>
              /\ UNCHANGED << pending_split_groups, split_tasks >>
              /\ submitted' = Append(submitted, u)
              /\ TextOf(u.messages) = <<>>
         /\ (/\ first.caption # <<>>
             /\ ~(key \in DOMAIN pending_split_groups
                    /\ pending_split_groups[key].processed)) =>
              /\ key \in DOMAIN pending_split_groups'
              /\ LET groups == pending_split_groups'[key].groups IN
                   groups[Len(groups)] = [media_group_id |-> g, messages |-> messages]
              /\ submitted' = submitted]_vars

C37_Witness ==
  \E i \in DOMAIN submitted :
    LET u == submitted[i] IN
    /\ u.kind = "group"
    /\ Len(u.messages) >= 2
    /\ u.messages[1].caption = <<>>
    /\ u.messages[2].caption = <<"b">>
    /\ pending_split_groups = << >>
    /\ \A k \in DOMAIN splitLog : splitLog[k] = << >>
====
